---------------------------- MODULE Spec2Model ----------------------------
(***************************************************************************)
(* Verification model of cds-fitstable-rust.                               *)
(*                                                                         *)
(* The module holds one state machine per subsystem; each has its own      *)
(* specification, and the variables of the other subsystems stay idle:     *)
(*   SpecCsv / FairSpecCsv : the multi-threaded CSV export                 *)
(*                           (crates/cli/src/csv.rs, convert_to_csv)       *)
(*   SpecHci               : the build of the HEALPix cumulative index     *)
(*                           (src/read/hidx.rs, hcidx)                     *)
(*   SpecQIdx              : the range query over an indexed table         *)
(*                           (src/read/hidx.rs, QIdxProcess::exec)         *)
(*   SpecHips              : the build of the HiPS catalogue layers        *)
(*                           (crates/cli/src/mkhips.rs, Layer1and2::exec   *)
(*                           and LayerExpl::exec)                          *)
(*   SpecHsort             : the HEALPix sort of a single file             *)
(*                           (src/read/hsort.rs, hsort_file)               *)
(*   SpecHduIt             : the iterator over the HDUs of a byte slice    *)
(*                           (src/read/slice.rs, HDUIterator::next)        *)
(*   SpecBinTable          : the row schema of a BINTABLE and the decoding *)
(*                           of a field (src/hdu/xtension/bintable)        *)
(***************************************************************************)
EXTENDS Integers, Sequences, FiniteSets, TLC

VARIABLES
  \* ---- multi-threaded CSV export (crates/cli/src/csv.rs) ----
  csvIn,      \* the inputs: [nRows, chunkSize, badRow, badCol]
  prodPc,     \* producer thread: "idle" | "send" | "drop" | "done"
  prodI,      \* index of the next raw chunk the producer sends
  senders1,   \* indices of the senders1 entries not yet dropped
  ch1,        \* producer -> worker channels, bounded(1): worker |-> Seq(chunk id)
  ch2,        \* worker -> sink channels, bounded(1): worker |-> Seq(message)
  wpc,        \* worker threads: "idle" | "recv" | "send" | "done"
  wbuf,       \* the encoded buffer a worker holds between recv and send
  orig2,      \* TRUE while the originals of senders2 are not dropped
  mainPc,     \* main thread: "idle" | "drop2" | "sink" | "joining" | "done"
              \*              | "panicked" | "unwound"
  sinkJ,      \* number of sink loop iterations completed (cycle position)
  out,        \* what was written to the output, a sequence of tokens
  writtenIds, \* history: ids of the chunks written, in writing order
  \* ---- build of the HEALPix cumulative index (src/read/hidx.rs, hcidx) ----
  hciIn,      \* the inputs: [rows, explicit, depth, dataStart, rowSize]
  hciPc,      \* "idle" | "loop" | "done" | "error"
  hciRow,     \* irow / i_row: number of rows read so far
  byteOffset, \* byte_offset
  prevIcell,  \* prev_icell (explicit shape)
  entries,    \* entries (explicit shape): sequence of <<cell, byte offset>>
  map,        \* map (implicit shape): sequence of byte offsets
  \* ---- range query (src/read/hidx.rs, QIdxProcess::exec) ----
  qIn,        \* the inputs: [rows, cls, limit, dataStart, rowSize]
  qPc,        \* "idle" | "ranges" | "done" | "panic"
  qRange,     \* number of ranges of the region processed so far
  qLimit,     \* limit (the mutable local)
  qBytes,     \* n_data_bytes_written
  qOut,       \* rows written to the output main table (numbers of input rows)
  qPad,       \* number of zero bytes written after the data
  qNaxis2,    \* value of the NAXIS2 record of the output BINTABLE header
  \* ---- HiPS catalogue build (crates/cli/src/mkhips.rs) ----
  hipsIn,     \* the inputs: [rows, score, n1, r21, n_tot, idxDepth]
  algo,       \* AlgoParams: [n12, n1, n2, one_plus_r21, nt]
  hipsPc,     \* "idle" | "start" | "chunks" | "finalize" | "done" | "panic"
  layers,     \* depth |-> rows written to hips.cat.layer<depth>.fits (recnos)
  moc,        \* cells pushed to moc_builder, each as <<depth, hash>>
  selected_recnos, \* selected_recnos of Layer1and2::exec
  tiles,      \* history: one record per completed call of LayerExpl::exec
  i12,        \* number of iterations of the chunk loop completed
  next_h3,    \* next_h3
  h3_recnos,  \* h3_recnos, a range <<start, end>>
  recno_cursors,   \* recno_cursors, a range <<start, end>>
  layerNaxis2, \* depth |-> NAXIS2 of the finalized layer file
  \* ---- HEALPix sort of a single file (src/read/hsort.rs, hsort_file) ----
  hsIn,       \* the inputs: [rows, internal_threshold, rowSize]
  hsPc,       \* "idle" | "sort" | "rows" | "done" | "error"
  hsExternal, \* TRUE when the external strategy was taken
  hsOut,      \* rows written to the output main table, in writing order
  \* ---- iterator over the HDUs (src/read/slice.rs, HDUIterator) ----
  itIn,       \* the bytes: [blocks, tail, cutLen]
  ptr,        \* self.ptr
  itPc,       \* "idle" | "ready" | "panicked"
  itCalls,    \* history: one record [at, res] per call of next
  \* ---- BINTABLE columns (src/hdu/xtension/bintable: header.rs, schema.rs) ----
  btIn,       \* the inputs: [naxis1, cols, storage]
  btPc,       \* "idle" | "header" | "schema" | "decoded" | "panic"
  row_schema, \* RowSchema: sequence of [starting_byte, schema]
  btValue,    \* value the visitor receives for the first field
  \* ---- selection of a row of a chunk, without score (crates/cli/src/mkhips.rs) ----
  exIn,       \* the inputs: [recnos, already_selected]
  exPc,       \* "idle" | "call" | "returned"
  exOut,      \* the Option<u64> returned: a recno or NoRecno
  \* ---- padding of a data block to a FITS block (src/read/hsort.rs, src/read/slice.rs, crates/cli/src/mkhips.rs) ----
  padIn,      \* the inputs: [writer, start, n_rows, row_byte_size]
  padPc,      \* "idle" | "rows" | "done"
  padPos,     \* position of the writer, in bytes
  padOut,     \* the padding written: [byte, len], vec![byte; len]
  \* ---- single-threaded CSV export (crates/cli/src/csv.rs, visitor/csv.rs) ----
  expIn,      \* the inputs: [no_header, colnames, rows]
  expPc,      \* "idle" | "header" | "rows" | "done"
  expRow,     \* number of the next row to convert (from 1)
  expSep,     \* CSVVisitor.sep
  expOut,     \* the text written so far
  \* ---- fixed-format integer keyword record (src/common/write.rs, src/common/keywords/bitpix.rs) ----
  kwIn,       \* the inputs: [kw, value, comment, fill, depleted]
  kwPc,       \* "idle" | "call" | "done" | "error" | "overflow"
  kwRecord    \* the 80 bytes of the destination record

csvVars == <<csvIn, prodPc, prodI, senders1, ch1, ch2, wpc, wbuf, orig2,
             mainPc, sinkJ, out, writtenIds>>

hciVars == <<hciIn, hciPc, hciRow, byteOffset, prevIcell, entries, map>>

qVars == <<qIn, qPc, qRange, qLimit, qBytes, qOut, qPad, qNaxis2>>

hipsVars == <<hipsIn, algo, hipsPc, layers, moc, selected_recnos, tiles, i12,
              next_h3, h3_recnos, recno_cursors, layerNaxis2>>

hsVars == <<hsIn, hsPc, hsExternal, hsOut>>

itVars == <<itIn, ptr, itPc, itCalls>>

btVars == <<btIn, btPc, row_schema, btValue>>

exVars == <<exIn, exPc, exOut>>

padVars == <<padIn, padPc, padPos, padOut>>

expVars == <<expIn, expPc, expRow, expSep, expOut>>

kwVars == <<kwIn, kwPc, kwRecord>>

vars == <<csvVars, hciVars, qVars, hipsVars, hsVars, itVars, btVars, exVars, padVars, expVars, kwVars>>

\* What each subsystem leaves alone.
csvOthers == <<hciVars, qVars, hipsVars, hsVars, itVars, btVars, exVars, padVars, expVars, kwVars>>

hciOthers == <<csvVars, qVars, hipsVars, hsVars, itVars, btVars, exVars, padVars, expVars, kwVars>>

qOthers == <<csvVars, hciVars, hipsVars, hsVars, itVars, btVars, exVars, padVars, expVars, kwVars>>

hipsOthers == <<csvVars, hciVars, qVars, hsVars, itVars, btVars, exVars, padVars, expVars, kwVars>>

hsOthers == <<csvVars, hciVars, qVars, hipsVars, itVars, btVars, exVars, padVars, expVars, kwVars>>

itOthers == <<csvVars, hciVars, qVars, hipsVars, hsVars, btVars, exVars, padVars, expVars, kwVars>>

btOthers == <<csvVars, hciVars, qVars, hipsVars, hsVars, itVars, exVars, padVars, expVars, kwVars>>

exOthers == <<csvVars, hciVars, qVars, hipsVars, hsVars, itVars, btVars, padVars, expVars, kwVars>>

padOthers == <<csvVars, hciVars, qVars, hipsVars, hsVars, itVars, btVars, exVars, expVars, kwVars>>

expOthers == <<csvVars, hciVars, qVars, hipsVars, hsVars, itVars, btVars, exVars, padVars, kwVars>>

kwOthers == <<csvVars, hciVars, qVars, hipsVars, hsVars, itVars, btVars, exVars, padVars, expVars>>

-----------------------------------------------------------------------------
(***************************************************************************)
(* Generic helpers.                                                        *)
(***************************************************************************)
Min(a, b) == IF a <= b THEN a ELSE b

Max(a, b) == IF a >= b THEN a ELSE b

RECURSIVE Flatten(_)
Flatten(ss) == IF ss = <<>> THEN <<>> ELSE Head(ss) \o Flatten(Tail(ss))

-----------------------------------------------------------------------------
(***************************************************************************)
(* Idle values: what the variables of a subsystem hold in the              *)
(* specifications of the other subsystems.                                 *)
(***************************************************************************)
CsvIdle ==
  /\ csvIn = [nRows |-> 0, chunkSize |-> 1, badRow |-> 0, badCol |-> 0]
  /\ prodPc = "idle"
  /\ prodI = 0
  /\ senders1 = {}
  /\ ch1 = <<>>
  /\ ch2 = <<>>
  /\ wpc = <<>>
  /\ wbuf = <<>>
  /\ orig2 = FALSE
  /\ mainPc = "idle"
  /\ sinkJ = 0
  /\ out = <<>>
  /\ writtenIds = <<>>

HciIdle ==
  /\ hciIn = [rows |-> <<>>, explicit |-> FALSE, depth |-> 0, dataStart |-> 0, rowSize |-> 1]
  /\ hciPc = "idle"
  /\ hciRow = 0
  /\ byteOffset = 0
  /\ prevIcell = 0
  /\ entries = <<>>
  /\ map = <<>>

QIdle ==
  /\ qIn = [rows |-> <<>>, cls |-> <<>>, limit |-> 0, dataStart |-> 0, rowSize |-> 1]
  /\ qPc = "idle"
  /\ qRange = 0
  /\ qLimit = 0
  /\ qBytes = 0
  /\ qOut = <<>>
  /\ qPad = 0
  /\ qNaxis2 = 0

HipsIdle ==
  /\ hipsIn = [rows |-> <<>>, score |-> "none", n1 |-> 0, r21 |-> 0, n_tot |-> 0, idxDepth |-> 0]
  /\ algo = [n12 |-> 0, n1 |-> 0, n2 |-> 0, one_plus_r21 |-> 1, nt |-> 0]
  /\ hipsPc = "idle"
  /\ layers = <<>>
  /\ moc = {}
  /\ selected_recnos = {}
  /\ tiles = <<>>
  /\ i12 = 0
  /\ next_h3 = 0
  /\ h3_recnos = <<0, 0>>
  /\ recno_cursors = <<0, 0>>
  /\ layerNaxis2 = <<>>

HsIdle ==
  /\ hsIn = [rows |-> <<>>, internal_threshold |-> 0, rowSize |-> 1]
  /\ hsPc = "idle"
  /\ hsExternal = FALSE
  /\ hsOut = <<>>

ItIdle ==
  /\ itIn = [blocks |-> <<>>, tail |-> "none", cutLen |-> 0]
  /\ ptr = 0
  /\ itPc = "idle"
  /\ itCalls = <<>>

BtIdle ==
  /\ btIn = [naxis1 |-> 0, cols |-> <<>>, storage |-> 0]
  /\ btPc = "idle"
  /\ row_schema = <<>>
  /\ btValue = <<>>

ExIdle ==
  /\ exIn = [recnos |-> <<0, 0>>, already_selected |-> {}]
  /\ exPc = "idle"
  /\ exOut = 0

PadIdle ==
  /\ padIn = [writer |-> "none", start |-> 0, n_rows |-> 0, row_byte_size |-> 1]
  /\ padPc = "idle"
  /\ padPos = 0
  /\ padOut = [byte |-> 0, len |-> 0]

ExpIdle ==
  /\ expIn = [no_header |-> FALSE, colnames |-> <<>>, rows |-> <<>>]
  /\ expPc = "idle"
  /\ expRow = 0
  /\ expSep = ""
  /\ expOut = ""

KwIdle ==
  /\ kwIn = [kw |-> <<>>, value |-> 0, comment |-> <<>>, fill |-> " ", depleted |-> FALSE]
  /\ kwPc = "idle"
  /\ kwRecord = <<>>

-----------------------------------------------------------------------------
(***************************************************************************)
(* Multi-threaded CSV export: convert_to_csv, n_threads >= 2.              *)
(* The HDD and the SSD branches differ only by the copy of each raw chunk  *)
(* (.map(Vec::from)); the threads, the channels and the loops are the      *)
(* same, so one state machine models both.                                 *)
(***************************************************************************)
NThreads == 2        \* n_threads, the number of workers (>= 2 in this branch)

MaxRows == 5         \* largest n_rows explored

MaxChunkSize == 2    \* largest chunk_size (rows per chunk) explored

NCols == 2           \* number of columns of the table

Workers == 0 .. NThreads - 1

ChanCap == 1

\* Number of chunks main.chunks(row_byte_size * chunk_size) yields.
NChunks(nRows, chunkSize) == (nRows + chunkSize - 1) \div chunkSize

\* Rows (numbered from 1) of the i-th chunk (i from 0): the last may be short.
ChunkRows(i, nRows, chunkSize) ==
  [k \in 1 .. (Min((i + 1) * chunkSize, nRows) - i * chunkSize) |-> i * chunkSize + k]

\* Index of the first field of row r whose deserialization returns Err
\* (NCols: none does).
FailCol(r) == IF r = csvIn.badRow THEN csvIn.badCol ELSE NCols

\* CSVVisitor: a field is written as the separator ('\n' after
\* starts_new_line, ',' afterwards) followed by the value.
SepToken(c) == IF c = 0 THEN <<"nl", 0, 0>> ELSE <<"comma", 0, 0>>

FieldTokens(r, c) == <<SepToken(c), <<"val", r, c>>>>

\* RowSchema::deserialize + visit_row: the fields are visited in order and the
\* first Err stops the row (res?); what earlier fields wrote stays written.
RECURSIVE DeserializeFrom(_, _, _)
DeserializeFrom(r, c, fail) ==
  IF c >= NCols \/ c >= fail THEN <<>>
  ELSE FieldTokens(r, c) \o DeserializeFrom(r, c + 1, fail)

DeserializeRow(r) == DeserializeFrom(r, 0, FailCol(r))

\* The Err case of the worker body: error!(...) and go on with the next row.
RowFailed(r) == FailCol(r) < NCols

\* Worker body: one buffer per raw chunk, the rows encoded in order.
RECURSIVE EncodeRows(_)
EncodeRows(rows) ==
  IF rows = <<>> THEN <<>>
  ELSE DeserializeRow(Head(rows)) \o EncodeRows(Tail(rows))

EncodeChunk(i) == EncodeRows(ChunkRows(i, csvIn.nRows, csvIn.chunkSize))

\* senders1.iter().cycle(): the i-th chunk goes to channel i mod N.
ProducerChannel(i) == i % NThreads

\* Mutant of SinkChannel: the cycle of the sink starts one channel too far.
MutSinkChannel(j) == (j + 1) % NThreads

\* receivers2.iter().cycle(): the j-th iteration of the sink reads channel j mod N.
SinkChannel(j) == j % NThreads

K == NChunks(csvIn.nRows, csvIn.chunkSize)

CsvInputs ==
  { [nRows |-> n, chunkSize |-> cs, badRow |-> b, badCol |-> c] :
      n \in 0 .. MaxRows, cs \in 1 .. MaxChunkSize, b \in 0 .. MaxRows, c \in 0 .. NCols - 1 }

\* State at the entry of scope(|s| ...): channels created and empty, the
\* threads spawned, nothing sent yet.
CsvInit ==
  /\ csvIn \in { i \in CsvInputs : i.badRow <= i.nRows /\ (i.badRow = 0 => i.badCol = 0) }
  /\ prodPc = "send"
  /\ prodI = 0
  /\ senders1 = Workers
  /\ ch1 = [w \in Workers |-> <<>>]
  /\ ch2 = [w \in Workers |-> <<>>]
  /\ wpc = [w \in Workers |-> "recv"]
  /\ wbuf = [w \in Workers |-> <<>>]
  /\ orig2 = TRUE
  /\ mainPc = "drop2"
  /\ sinkJ = 0
  /\ out = <<>>
  /\ writtenIds = <<>>
  /\ HciIdle
  /\ QIdle
  /\ HipsIdle
  /\ HsIdle
  /\ ItIdle
  /\ BtIdle
  /\ ExIdle
  /\ PadIdle
  /\ ExpIdle
  /\ KwIdle

\* Producer: send(rows_chunk) on the next channel of the cycle; blocks while
\* the single slot is taken.  The receivers never all drop during the scope
\* (receivers1 keeps the originals), so send never returns Err.
ProducerSend ==
  /\ prodPc = "send"
  /\ prodI < K
  /\ Len(ch1[ProducerChannel(prodI)]) < ChanCap
  /\ ch1' = [ch1 EXCEPT ![ProducerChannel(prodI)] = Append(@, prodI)]
  /\ prodI' = prodI + 1
  /\ UNCHANGED <<csvIn, prodPc, senders1, ch2, wpc, wbuf, orig2, mainPc, sinkJ,
                 out, writtenIds>>
  /\ UNCHANGED csvOthers

\* Mutant of ProducerDropSenders: the producer returns without dropping its
\* senders (they live in the enclosing function, not in the closure).
MutProducerDropSenders ==
  /\ prodPc = "send"
  /\ prodI >= K
  /\ prodPc' = "done"
  /\ UNCHANGED <<csvIn, prodI, senders1, ch1, ch2, wpc, wbuf, orig2, mainPc, sinkJ,
                 out, writtenIds>>
  /\ UNCHANGED csvOthers

\* Producer: end of the for loop, senders1.drain(..).for_each(drop).
ProducerDropSenders ==
  /\ prodPc = "send"
  /\ prodI >= K
  /\ senders1' = {}
  /\ prodPc' = "done"
  /\ UNCHANGED <<csvIn, prodI, ch1, ch2, wpc, wbuf, orig2, mainPc, sinkJ, out,
                 writtenIds>>
  /\ UNCHANGED csvOthers

Producer == ProducerSend \/ ProducerDropSenders

\* Worker: recvr1.iter() yields the next raw chunk; the worker encodes it
\* into buff.
WorkerRecv(w) ==
  /\ wpc[w] = "recv"
  /\ ch1[w] # <<>>
  /\ wbuf' = [wbuf EXCEPT ![w] = <<[id |-> Head(ch1[w]), buf |-> EncodeChunk(Head(ch1[w]))]>>]
  /\ ch1' = [ch1 EXCEPT ![w] = Tail(@)]
  /\ wpc' = [wpc EXCEPT ![w] = "send"]
  /\ UNCHANGED <<csvIn, prodPc, prodI, senders1, ch2, orig2, mainPc, sinkJ, out,
                 writtenIds>>
  /\ UNCHANGED csvOthers

\* Mutant of WorkerSend: the output channel is unbounded, send never blocks.
MutWorkerSend(w) ==
  /\ wpc[w] = "send"
  /\ ch2' = [ch2 EXCEPT ![w] = @ \o wbuf[w]]
  /\ wbuf' = [wbuf EXCEPT ![w] = <<>>]
  /\ wpc' = [wpc EXCEPT ![w] = "recv"]
  /\ UNCHANGED <<csvIn, prodPc, prodI, senders1, ch1, orig2, mainPc, sinkJ, out,
                 writtenIds>>
  /\ UNCHANGED csvOthers

\* Worker: sendr2.send(buff); blocks while the single slot is taken.  The
\* receivers2 vector outlives the scope, so send never returns Err.
WorkerSend(w) ==
  /\ wpc[w] = "send"
  /\ Len(ch2[w]) < ChanCap
  /\ ch2' = [ch2 EXCEPT ![w] = @ \o wbuf[w]]
  /\ wbuf' = [wbuf EXCEPT ![w] = <<>>]
  /\ wpc' = [wpc EXCEPT ![w] = "recv"]
  /\ UNCHANGED <<csvIn, prodPc, prodI, senders1, ch1, orig2, mainPc, sinkJ, out,
                 writtenIds>>
  /\ UNCHANGED csvOthers

\* Worker: recvr1.iter() ends when the channel is empty and its sender is
\* dropped; the closure returns and drops its clone of the sender.
WorkerExit(w) ==
  /\ wpc[w] = "recv"
  /\ ch1[w] = <<>>
  /\ w \notin senders1
  /\ wpc' = [wpc EXCEPT ![w] = "done"]
  /\ UNCHANGED <<csvIn, prodPc, prodI, senders1, ch1, ch2, wbuf, orig2, mainPc,
                 sinkJ, out, writtenIds>>
  /\ UNCHANGED csvOthers

Worker(w) == WorkerRecv(w) \/ WorkerSend(w) \/ WorkerExit(w)

\* A channel of the second array is disconnected when the original sender and
\* the worker's clone are both dropped.
Senders2Dropped(w) == ~orig2 /\ wpc[w] = "done"

\* Main thread: senders2.drain(..).for_each(drop).
MainDropSenders2 ==
  /\ mainPc = "drop2"
  /\ orig2' = FALSE
  /\ mainPc' = "sink"
  /\ UNCHANGED <<csvIn, prodPc, prodI, senders1, ch1, ch2, wpc, wbuf, sinkJ, out,
                 writtenIds>>
  /\ UNCHANGED csvOthers

\* Sink: recvr2.recv() returns Ok(raw_rows), then write.write_all(&raw_rows)
\* either succeeds or fails (the failure panics).
SinkRecvWrite ==
  /\ mainPc = "sink"
  /\ ch2[SinkChannel(sinkJ)] # <<>>
  /\ ch2' = [ch2 EXCEPT ![SinkChannel(sinkJ)] = Tail(@)]
  /\ \E ok \in BOOLEAN :
       IF ok
       THEN /\ out' = out \o Head(ch2[SinkChannel(sinkJ)]).buf
            /\ writtenIds' = Append(writtenIds, Head(ch2[SinkChannel(sinkJ)]).id)
            /\ sinkJ' = sinkJ + 1
            /\ mainPc' = mainPc
       ELSE /\ mainPc' = "panicked"
            /\ UNCHANGED <<out, writtenIds, sinkJ>>
  /\ UNCHANGED <<csvIn, prodPc, prodI, senders1, ch1, wpc, wbuf, orig2>>
  /\ UNCHANGED csvOthers

\* Sink: recvr2.recv() returns Err (empty and disconnected): break.
SinkBreak ==
  /\ mainPc = "sink"
  /\ ch2[SinkChannel(sinkJ)] = <<>>
  /\ Senders2Dropped(SinkChannel(sinkJ))
  /\ mainPc' = "joining"
  /\ UNCHANGED <<csvIn, prodPc, prodI, senders1, ch1, ch2, wpc, wbuf, orig2, sinkJ,
                 out, writtenIds>>
  /\ UNCHANGED csvOthers

AllThreadsExited == prodPc = "done" /\ \A w \in Workers : wpc[w] = "done"

\* std::thread::scope joins every spawned thread before it returns; then
\* write!(write, "\n") ends the output.
ScopeReturn ==
  /\ mainPc = "joining"
  /\ AllThreadsExited
  /\ out' = Append(out, <<"nl", 0, 0>>)
  /\ mainPc' = "done"
  /\ UNCHANGED <<csvIn, prodPc, prodI, senders1, ch1, ch2, wpc, wbuf, orig2, sinkJ,
                 writtenIds>>
  /\ UNCHANGED csvOthers

\* std::thread::scope catches the panic of its closure, still joins every
\* spawned thread, and only then resumes the unwinding.
ScopeUnwind ==
  /\ mainPc = "panicked"
  /\ AllThreadsExited
  /\ mainPc' = "unwound"
  /\ UNCHANGED <<csvIn, prodPc, prodI, senders1, ch1, ch2, wpc, wbuf, orig2, sinkJ,
                 out, writtenIds>>
  /\ UNCHANGED csvOthers

Main == MainDropSenders2 \/ SinkRecvWrite \/ SinkBreak \/ ScopeReturn \/ ScopeUnwind

CsvNext == Producer \/ (\E w \in Workers : Worker(w)) \/ Main

SpecCsv == CsvInit /\ [][CsvNext]_vars

\* The export of a table of more than 3 N chunks, no row of which fails.
MaxFlowRows == 3 * NThreads + 1

CsvFlowInit ==
  /\ csvIn \in { [nRows |-> n, chunkSize |-> 1, badRow |-> 0, badCol |-> 0] :
                   n \in MaxFlowRows - 1 .. MaxFlowRows }
  /\ prodPc = "send"
  /\ prodI = 0
  /\ senders1 = Workers
  /\ ch1 = [w \in Workers |-> <<>>]
  /\ ch2 = [w \in Workers |-> <<>>]
  /\ wpc = [w \in Workers |-> "recv"]
  /\ wbuf = [w \in Workers |-> <<>>]
  /\ orig2 = TRUE
  /\ mainPc = "drop2"
  /\ sinkJ = 0
  /\ out = <<>>
  /\ writtenIds = <<>>
  /\ HciIdle
  /\ QIdle
  /\ HipsIdle
  /\ HsIdle
  /\ ItIdle
  /\ BtIdle
  /\ ExIdle
  /\ PadIdle
  /\ ExpIdle
  /\ KwIdle

SpecCsvFlow == CsvFlowInit /\ [][CsvNext]_vars

\* Each thread is scheduled by the operating system: a thread that can take a
\* step eventually does.
FairSpecCsv ==
  /\ CsvInit
  /\ [][CsvNext]_vars
  /\ WF_vars(Producer)
  /\ \A w \in Workers : WF_vars(Worker(w))
  /\ WF_vars(Main)

-----------------------------------------------------------------------------
(***************************************************************************)
(* Claims about the multi-threaded CSV export.                             *)
(***************************************************************************)
IsVal(tok) == tok[1] = "val"

WriteFailed == mainPc \in {"panicked", "unwound"}

\* The ids 0, 1, ..., n-1 in this order.
FirstIds(n) == [i \in 1 .. n |-> i - 1]

\* C1: for every interleaving of the producer, the workers and the sink, the
\* sink writes the encoded chunks in the order of the source chunks (chunk i
\* before chunk i+1), and the rows of the output appear in source row order.
C1_SinkWritesInSourceOrder ==
  /\ writtenIds = FirstIds(Len(writtenIds))
  /\ \A i, j \in DOMAIN out :
       (i < j /\ IsVal(out[i]) /\ IsVal(out[j])) => out[i][2] <= out[j][2]

\* C1 witness: a complete export of at least three chunks, so that the cycle
\* over the N channels wraps around.
C1_Witness ==
  /\ mainPc = "done"
  /\ Len(writtenIds) >= NThreads + 1
  /\ csvIn.chunkSize >= 2

\* C2 (as claimed): once a write of the sink has failed, the producer and the
\* workers all exit; none of them stays blocked on a channel forever, that is,
\* the export is never stuck with a thread that has not exited.
C2_SinkFailureTerminates ==
  mainPc = "panicked" => (AllThreadsExited \/ ENABLED CsvNext)

TokensOfRow(r) == { i \in DOMAIN out : out[i][2] = r }

RECURSIVE SingleThreadFrom(_)
SingleThreadFrom(r) ==
  IF r > csvIn.nRows THEN << <<"nl", 0, 0>> >>
  ELSE IF RowFailed(r) THEN DeserializeRow(r)
  ELSE DeserializeRow(r) \o SingleThreadFrom(r + 1)

RECURSIVE SumLen(_, _)
SumLen(f, S) ==
  IF S = {} THEN 0
  ELSE LET w == CHOOSE x \in S : TRUE IN Len(f[w]) + SumLen(f, S \ {w})

InFlight == SumLen(ch1, Workers) + SumLen(wbuf, Workers) + SumLen(ch2, Workers)

\* C30: at any time the number of chunks accepted by an input channel and not
\* yet received by the sink is at most 3 N, N the number of workers.
C30_AtMost3NInFlight == InFlight <= 3 * NThreads

\* C30 witness: 3 N chunks are in flight and the producer has more to send.
C30_Witness ==
  /\ InFlight = 3 * NThreads
  /\ prodI < K

-----------------------------------------------------------------------------
(***************************************************************************)
(* Build of the HEALPix cumulative index: hcidx (src/read/hidx.rs).        *)
(* A row is reduced to its position: NaNPos when its longitude or its      *)
(* latitude is NaN, else the hash of its cell at the index depth.          *)
(***************************************************************************)
MaxHciRows == 3      \* largest number of table rows explored

MaxCell == 3         \* the rows fall in the cells 0 .. MaxCell

MaxDepth == 2        \* the index depths explored are 0 .. MaxDepth

NaNPos == 0 - 1

RECURSIVE Pow4(_)
Pow4(d) == IF d = 0 THEN 1 ELSE 4 * Pow4(d - 1)

\* cdshealpix n_hash(depth): the number of cells at a depth.
n_hash(d) == 12 * Pow4(d)

\* The position provider: the closure hpx of hcidx.
hpx(pos) == IF pos = NaNPos THEN 0 ELSE pos

RECURSIVE SeqsUpTo(_, _)
SeqsUpTo(S, n) ==
  IF n = 0 THEN {<<>>}
  ELSE LET shorter == SeqsUpTo(S, n - 1)
       IN  shorter \cup { Append(q, x) : q \in { t \in shorter : Len(t) = n - 1 }, x \in S }

Repeat(x, n) == [k \in 1 .. n |-> x]

\* Explicit shape: the test that rejects a table as not sorted.
ExplicitNotSorted(icell, prev) == icell + 1 < prev

\* Explicit shape: whether the row opens a new entry.
ExplicitPushes(icell, prev, ents) == icell > prev \/ (icell = 0 /\ ents = <<>>)

\* Implicit shape: the test that rejects a table as not sorted.
ImplicitNotSorted(icell, mapLen) == icell + 1 < mapLen

\* Mutant of ImplicitPush: only the cell of the row gets an offset, the empty
\* cells before it are not filled.
MutImplicitPush(m, icell, off) == IF icell + 1 > Len(m) THEN Append(m, off) ELSE m

\* Implicit shape: for _ in map.len()..=icell { map.push(byte_offset) }.
ImplicitPush(m, icell, off) == m \o Repeat(off, Max(0, icell + 1 - Len(m)))

\* Mutant of CompleteMap: the map is resized with zeros instead of the end of
\* the table.
MutCompleteMap(m, len, off) == m \o Repeat(0, Max(0, len - Len(m)))

\* Implicit shape: for _ in map.len()..len { map.push(byte_offset) }.
CompleteMap(m, len, off) == m \o Repeat(off, Max(0, len - Len(m)))

\* Explicit shape: entries.push((prev_icell + 1, byte_offset)).
ExplicitSentinel(ents, prev, off) == Append(ents, <<prev + 1, off>>)

HciInputs ==
  { [rows |-> r, explicit |-> e, depth |-> d, dataStart |-> 2880, rowSize |-> 8] :
      r \in SeqsUpTo(NaNPos .. MaxCell, MaxHciRows), e \in BOOLEAN, d \in 0 .. MaxDepth }

\* State when the loop over the rows starts.
HciInit ==
  /\ hciIn \in HciInputs
  /\ hciPc = "loop"
  /\ hciRow = 0
  /\ byteOffset = hciIn.dataStart
  /\ prevIcell = 0
  /\ entries = <<>>
  /\ map = <<>>
  /\ CsvIdle
  /\ QIdle
  /\ HipsIdle
  /\ HsIdle
  /\ ItIdle
  /\ BtIdle
  /\ ExIdle
  /\ PadIdle
  /\ ExpIdle
  /\ KwIdle

\* in_mem_explicit: one iteration of "for row in rows".
HciExplicitRow ==
  /\ hciPc = "loop"
  /\ hciIn.explicit
  /\ hciRow < Len(hciIn.rows)
  /\ LET icell == hpx(hciIn.rows[hciRow + 1])
     IN  IF ExplicitNotSorted(icell, prevIcell)
         THEN /\ hciPc' = "error"
              /\ UNCHANGED <<hciRow, byteOffset, prevIcell, entries>>
         ELSE /\ entries' = IF ExplicitPushes(icell, prevIcell, entries)
                            THEN Append(entries, <<icell, byteOffset>>)
                            ELSE entries
              /\ byteOffset' = byteOffset + hciIn.rowSize
              /\ hciRow' = hciRow + 1
              /\ prevIcell' = icell
              /\ hciPc' = hciPc
  /\ UNCHANGED <<hciIn, map>>
  /\ UNCHANGED hciOthers

\* in_mem_explicit: after the loop, the sentinel, then the index is written.
HciExplicitEnd ==
  /\ hciPc = "loop"
  /\ hciIn.explicit
  /\ hciRow = Len(hciIn.rows)
  /\ entries' = ExplicitSentinel(entries, prevIcell, byteOffset)
  /\ hciPc' = "done"
  /\ UNCHANGED <<hciIn, hciRow, byteOffset, prevIcell, map>>
  /\ UNCHANGED hciOthers

\* Implicit shape: one iteration of "for row in rows".
HciImplicitRow ==
  /\ hciPc = "loop"
  /\ ~hciIn.explicit
  /\ hciRow < Len(hciIn.rows)
  /\ LET icell == hpx(hciIn.rows[hciRow + 1])
     IN  IF ImplicitNotSorted(icell, Len(map))
         THEN /\ hciPc' = "error"
              /\ UNCHANGED <<hciRow, byteOffset, map>>
         ELSE /\ map' = ImplicitPush(map, icell, byteOffset)
              /\ byteOffset' = byteOffset + hciIn.rowSize
              /\ hciRow' = hciRow + 1
              /\ hciPc' = hciPc
  /\ UNCHANGED <<hciIn, prevIcell, entries>>
  /\ UNCHANGED hciOthers

\* Implicit shape: after the loop, the map is completed, then written.
HciImplicitEnd ==
  /\ hciPc = "loop"
  /\ ~hciIn.explicit
  /\ hciRow = Len(hciIn.rows)
  /\ map' = CompleteMap(map, n_hash(hciIn.depth) + 1, byteOffset)
  /\ hciPc' = "done"
  /\ UNCHANGED <<hciIn, hciRow, byteOffset, prevIcell, entries>>
  /\ UNCHANGED hciOthers

HciNext == HciExplicitRow \/ HciExplicitEnd \/ HciImplicitRow \/ HciImplicitEnd

SpecHci == HciInit /\ [][HciNext]_vars

\* HCIndex::get of the implicit index: the h-th offset of the array.
ImplicitGet(m, h) == m[h + 1]

\* HCIndex::get of the explicit index: the offset of the first entry whose
\* cell is at least h, the last entry being the sentinel.
RECURSIVE LowerBound(_, _, _)
LowerBound(ents, h, k) ==
  IF k >= Len(ents) \/ ents[k][1] >= h THEN k ELSE LowerBound(ents, h, k + 1)

ExplicitGet(ents, h) == ents[LowerBound(ents, h, 1)][2]

\* The index built, read through get.
HciGet(h) == IF hciIn.explicit THEN ExplicitGet(entries, h) ELSE ImplicitGet(map, h)

-----------------------------------------------------------------------------
RowsOfCell(h) == { i \in 1 .. Len(hciIn.rows) : hpx(hciIn.rows[i]) = h }

RowsFromCell(h) == { i \in 1 .. Len(hciIn.rows) : hpx(hciIn.rows[i]) >= h }

MinOf(S) == CHOOSE x \in S : \A y \in S : x <= y

MaxOf(S) == CHOOSE x \in S : \A y \in S : x >= y

\* Byte offset, in the file, of the row number i; i = n_rows + 1 gives the end
\* of the main table.
OffsetOfRow(i) == hciIn.dataStart + (i - 1) * hciIn.rowSize

EndOfMainTable == OffsetOfRow(Len(hciIn.rows) + 1)

\* C11: an implicit index built at depth d has exactly 12*4^d + 1 offsets;
\* entry h is the byte offset of the first row whose cell is h, an empty cell
\* carries the offset of the next non-empty cell, and every entry after the
\* last non-empty cell, the final sentinel included, is the end of the main
\* table.  For rows in the depth-2 cells 0, 0, 3 with row width 8 and data
\* start 2880 the index is [2880, 2896, 2896, 2896, 2904, ..., 2904], of
\* length 193.
C11_ImplicitIndexContent ==
  (hciPc = "done" /\ ~hciIn.explicit) =>
    /\ Len(map) = 12 * (4 ^ hciIn.depth) + 1
    /\ \A h \in 0 .. Len(map) - 1 :
         /\ RowsOfCell(h) # {} => map[h + 1] = OffsetOfRow(MinOf(RowsOfCell(h)))
         /\ (RowsOfCell(h) = {} /\ RowsFromCell(h) # {}) =>
              map[h + 1] = map[hpx(hciIn.rows[MinOf(RowsFromCell(h))]) + 1]
         /\ RowsFromCell(h) = {} => map[h + 1] = EndOfMainTable
    /\ (hciIn.rows = <<0, 0, 3>> /\ hciIn.depth = 2) =>
         /\ Len(map) = 193
         /\ map = <<2880, 2896, 2896, 2896>> \o [k \in 1 .. 189 |-> 2904]

\* C11 witness: the implicit index of the rows in the depth-2 cells 0, 0, 3 is
\* built.
C11_Witness ==
  /\ hciPc = "done"
  /\ ~hciIn.explicit
  /\ hciIn.rows = <<0, 0, 3>>
  /\ hciIn.depth = 2
  /\ hciIn.rowSize = 8
  /\ hciIn.dataStart = 2880

\* C28 (as claimed): when the build of the index returns without error, in
\* the implicit or the explicit shape, the cells of the rows at the index
\* depth are non-decreasing in file order: a table in which the cell of some
\* row is smaller than the cell of the row before it is rejected as not
\* sorted.
C28_BuiltImpliesSorted ==
  hciPc = "done" =>
    \A i \in 1 .. Len(hciIn.rows) - 1 :
      hpx(hciIn.rows[i]) <= hpx(hciIn.rows[i + 1])

-----------------------------------------------------------------------------
(***************************************************************************)
(* Range query over a sorted, indexed table: QIdxProcess::exec             *)
(* (src/read/hidx.rs).  A row is [pos, inside]: its position as in the     *)
(* index build, and whether region.contains holds of it.  The region is    *)
(* given by the class of each cell of the index depth: "out", "partial"    *)
(* (a boundary cell) or "full" (a cell wholly inside the region).          *)
(***************************************************************************)
MaxQRows == 3        \* largest number of table rows explored

MaxQCell == 2        \* the rows fall in the cells 0 .. MaxQCell

NoLimit == 0 - 1     \* limit: None

FitsBlock == 2880

QDepth == 0

QCells == 0 .. MaxQCell

QRowValues == { [pos |-> p, inside |-> b] : p \in NaNPos .. MaxQCell, b \in BOOLEAN }

\* The table is sorted as the index build requires, and the region agrees
\* with the classes of its cells.
QConsistent(rows, cls) ==
  /\ \A i \in 1 .. Len(rows) - 1 : hpx(rows[i].pos) <= hpx(rows[i + 1].pos)
  /\ \A i \in 1 .. Len(rows) :
       /\ rows[i].pos = NaNPos => ~rows[i].inside
       /\ (rows[i].pos # NaNPos /\ cls[rows[i].pos + 1] = "full") => rows[i].inside
       /\ (rows[i].pos # NaNPos /\ cls[rows[i].pos + 1] = "out") => ~rows[i].inside

QInputs ==
  { [rows |-> r, cls |-> c, limit |-> l, dataStart |-> 2 * FitsBlock, rowSize |-> 16] :
      r \in SeqsUpTo(QRowValues, MaxQRows),
      c \in [1 .. MaxQCell + 1 -> {"out", "partial", "full"}],
      l \in NoLimit .. MaxQRows }

\* The implicit index of the table, as hcidx builds it.
RECURSIVE BuildImplicitMap(_, _, _, _)
BuildImplicitMap(rows, i, off, m) ==
  IF i > Len(rows) THEN CompleteMap(m, n_hash(QDepth) + 1, off)
  ELSE BuildImplicitMap(rows, i + 1, off + qIn.rowSize,
                        ImplicitPush(m, hpx(rows[i].pos), off))

QHci == BuildImplicitMap(qIn.rows, 1, qIn.dataStart, <<>>)

\* region.sorted_hpx_ranges(depth): the cells of the region in increasing
\* order, each as the range <<first cell, end cell, flag>>, the flag telling a
\* cell wholly inside the region.
RECURSIVE SortedHpxRanges(_, _)
SortedHpxRanges(cls, c) ==
  IF c > Len(cls) THEN <<>>
  ELSE (IF cls[c] = "out" THEN <<>> ELSE << <<c - 1, c, cls[c] = "full">> >>)
         \o SortedHpxRanges(cls, c + 1)

QRanges == SortedHpxRanges(qIn.cls, 1)

\* hci.get_with_range_at_index_depth(range): the byte range of a cell range.
BytesRange(range) == <<ImplicitGet(QHci, range[1]), ImplicitGet(QHci, range[2])>>

\* Number (from 1) of the row that starts at a byte offset of the file.
RowAt(byte) == (byte - qIn.dataStart) \div qIn.rowSize + 1

\* The rows of the slice mmap[from..to], as row numbers; a number larger than
\* n_rows stands for the bytes that follow the main table.
RowsOfSlice(from, to) == [k \in 1 .. (to - from) \div qIn.rowSize |-> RowAt(from) + k - 1]

\* Boundary range: the loop over the rows of the range.
RECURSIVE BoundaryLoop(_, _, _)
BoundaryLoop(rowNos, i, acc) ==
  IF i > Len(rowNos) THEN acc
  ELSE LET row == qIn.rows[rowNos[i]]
       IN  IF acc.limit > 0 /\ row.pos # NaNPos /\ row.inside
           THEN BoundaryLoop(rowNos, i + 1,
                  [limit |-> acc.limit - 1,
                   bytes |-> acc.bytes + qIn.rowSize,
                   out   |-> Append(acc.out, rowNos[i])])
           ELSE BoundaryLoop(rowNos, i + 1, acc)

\* State after hdu.copy_header: the header is copied with the NAXIS2 of the
\* input, limit = self.limit.unwrap_or(n_rows), nothing written yet.
QInit ==
  /\ qIn \in { i \in QInputs : QConsistent(i.rows, i.cls) }
  /\ qPc = "ranges"
  /\ qRange = 0
  /\ qLimit = (IF qIn.limit = NoLimit THEN Len(qIn.rows) ELSE qIn.limit)
  /\ qBytes = 0
  /\ qOut = <<>>
  /\ qPad = 0
  /\ qNaxis2 = Len(qIn.rows)
  /\ CsvIdle
  /\ HciIdle
  /\ HipsIdle
  /\ HsIdle
  /\ ItIdle
  /\ BtIdle
  /\ ExIdle
  /\ PadIdle
  /\ ExpIdle
  /\ KwIdle

\* One iteration of the loop over the ranges, the range being wholly inside
\* the region (flag): bulk copy.
QRangeInside ==
  /\ qPc = "ranges"
  /\ qRange < Len(QRanges)
  /\ QRanges[qRange + 1][3]
  /\ LET br     == BytesRange(QRanges[qRange + 1])
         n_rows == qBytes \div qIn.rowSize
     IN  IF n_rows < qLimit
         THEN /\ qOut' = qOut \o RowsOfSlice(br[1], br[2])
              /\ qLimit' = qLimit - n_rows
              /\ qBytes' = qBytes + (br[2] - br[1])
              /\ qPc' = qPc
              /\ qRange' = qRange + 1
         ELSE \* mmap[start .. start + limit * row_byte_size]: the slice may
              \* run past the main table; past the end of the file it panics.
              LET to == br[1] + qLimit * qIn.rowSize
              IN  \E pastFile \in BOOLEAN :
                    IF pastFile /\ RowAt(to) - 1 > Len(qIn.rows)
                    THEN /\ qPc' = "panic"
                         /\ UNCHANGED <<qOut, qLimit, qBytes, qRange>>
                    ELSE /\ qOut' = qOut \o RowsOfSlice(br[1], to)
                         /\ qLimit' = 0
                         \* limit = 0; n_data_bytes_written += limit * row_byte_size
                         /\ qBytes' = qBytes + 0 * qIn.rowSize
                         /\ qPc' = qPc
                         /\ qRange' = qRange + 1
  /\ UNCHANGED <<qIn, qPad, qNaxis2>>
  /\ UNCHANGED qOthers

\* One iteration of the loop over the ranges, the range being a boundary
\* range: row by row filter.
QRangeBoundary ==
  /\ qPc = "ranges"
  /\ qRange < Len(QRanges)
  /\ ~QRanges[qRange + 1][3]
  /\ LET br  == BytesRange(QRanges[qRange + 1])
         res == BoundaryLoop(RowsOfSlice(br[1], br[2]), 1,
                             [limit |-> qLimit, bytes |-> qBytes, out |-> qOut])
     IN  /\ qLimit' = res.limit
         /\ qBytes' = res.bytes
         /\ qOut' = res.out
  /\ qRange' = qRange + 1
  /\ UNCHANGED <<qIn, qPc, qPad, qNaxis2>>
  /\ UNCHANGED qOthers

\* After the loop: zero padding to a whole block, then NAXIS2 is rewritten in
\* place with n_data_bytes_written / row_byte_size.
QFinish ==
  /\ qPc = "ranges"
  /\ qRange = Len(QRanges)
  /\ qPad' = (IF qBytes % FitsBlock # 0 THEN FitsBlock - (qBytes % FitsBlock) ELSE 0)
  /\ qNaxis2' = qBytes \div qIn.rowSize
  /\ qPc' = "done"
  /\ UNCHANGED <<qIn, qRange, qLimit, qBytes, qOut>>
  /\ UNCHANGED qOthers

QNext == QRangeInside \/ QRangeBoundary \/ QFinish

SpecQIdx == QInit /\ [][QNext]_vars

-----------------------------------------------------------------------------
(***************************************************************************)
(* Claims about the range query.                                           *)
(***************************************************************************)
\* The row limit asked for: L, or the number of rows of the table without one.
QAskedLimit == IF qIn.limit = NoLimit THEN Len(qIn.rows) ELSE qIn.limit

\* The input rows whose position lies inside the region, in file order.
RECURSIVE QInsideRows(_)
QInsideRows(i) ==
  IF i > Len(qIn.rows) THEN <<>>
  ELSE (IF qIn.rows[i].pos # NaNPos /\ qIn.rows[i].inside THEN <<i>> ELSE <<>>)
         \o QInsideRows(i + 1)

\* C5 (as claimed): for any region and any row limit L, the number of rows
\* written to the output main table is at most L, bulk copies included.
C5_AtMostLimitRows == Len(qOut) <= QAskedLimit

\* C6 (as claimed): after the query completes, the NAXIS2 record of the output
\* BINTABLE header holds exactly the number of rows written to the output
\* main table.
C6_Naxis2IsRowsWritten == qPc = "done" => qNaxis2 = Len(qOut)

\* C7 (as claimed): when the limit is not reached, the rows written are
\* exactly the input rows whose position lies inside the region, each once;
\* rows with a NaN longitude or latitude are never written.
C7_ExactlyRowsInside ==
  /\ \A k \in DOMAIN qOut :
       qOut[k] <= Len(qIn.rows) => qIn.rows[qOut[k]].pos # NaNPos
  /\ (qPc = "done" /\ Len(QInsideRows(1)) < QAskedLimit) => qOut = QInsideRows(1)

\* Length of the file the range query leaves: the HDUs and the header before
\* the data, the rows written and the padding.
QFileLength == qIn.dataStart + Len(qOut) * qIn.rowSize + qPad

\* C21 (as claimed): the file emitted by the range query has a total length
\* that is a multiple of 2880 bytes, whatever the number of rows written
\* (as have the files of the directory-mode sort and of the HiPS layers).
C21_LengthMultipleOf2880 ==
  qPc = "done" => QFileLength % FitsBlock = 0

-----------------------------------------------------------------------------
(***************************************************************************)
(* Build of the HiPS catalogue layers: Layer1and2::exec and                *)
(* LayerExpl::exec (crates/cli/src/mkhips.rs).                             *)
(*                                                                         *)
(* A row is its HEALPix hash on the grid of depth RowDepth, which stands   *)
(* for the depth-29 hash the code computes (a depth-29 hash does not fit   *)
(* the integers of the model checker): the hash of a row at depth d is     *)
(* the one of the cell of depth d that holds its position.  The table is   *)
(* sorted by hash; rows are named by their record number (recno, from 0);  *)
(* a range of recnos is <<start, end>>, end excluded.                      *)
(***************************************************************************)
MaxHipsRows == 4     \* largest number of table rows explored

RowDepth == 6        \* depth of the grid the positions are drawn on

HipsPositions == {0, 1, 16, 64}   \* cells of depth RowDepth holding rows

\* The score expression explored: none, or one whose value grows with the
\* recno ("up"), decreases with it ("down"), or is the same for all rows.
ScoreKinds == {"none", "up", "down", "flat"}

NTotValues == {32, 64}            \* values of --n-tot explored

\* Values of <<--n1, --r21>> explored.
HipsCapacities == { <<96, 1>>, <<192, 1>>, <<128, 2>> }

IdxDepths == {3, 6}               \* depths of the index of the input explored

NoRecno == 0 - 1                  \* Option<u64>: None

IsSortedSeq(s) == \A i \in 1 .. Len(s) - 1 : s[i] <= s[i + 1]

HipsInputs ==
  { [rows |-> r, score |-> sc, n1 |-> c[1], r21 |-> c[2], n_tot |-> t, idxDepth |-> d] :
      r \in { s \in SeqsUpTo(HipsPositions, MaxHipsRows) : IsSortedSeq(s) },
      sc \in ScoreKinds,
      c \in HipsCapacities,
      t \in NTotValues,
      d \in IdxDepths }

nrows == Len(hipsIn.rows)

\* hpx29 >> twice_dd, with twice_dd = (29 - depth) << 1: the hash at a depth
\* of the row of a recno.
HpxAt(recno, depth) ==
  IF depth <= RowDepth
  THEN hipsIn.rows[recno + 1] \div Pow4(RowDepth - depth)
  ELSE hipsIn.rows[recno + 1] * Pow4(depth - RowDepth)

RecnoSet(recnos) == recnos[1] .. recnos[2] - 1

RecnoSeq(recnos) == [k \in 1 .. recnos[2] - recnos[1] |-> recnos[1] + k - 1]

\* The index of the input, built on the table at depth idxDepth.
has_index(depth) == depth <= hipsIn.idxDepth

\* hcidx.get_cell(depth, hash), as a range of recnos: the rows of the cell,
\* or at a depth larger than the one of the index the rows of the cell of
\* the index that holds it.
get_cell(depth, hash) ==
  LET d == IF has_index(depth) THEN depth ELSE hipsIn.idxDepth
      h == IF has_index(depth) THEN hash ELSE hash \div Pow4(depth - hipsIn.idxDepth)
  IN  << Cardinality({ r \in 0 .. nrows - 1 : HpxAt(r, d) < h }),
         Cardinality({ r \in 0 .. nrows - 1 : HpxAt(r, d) <= h }) >>

get_cell_noncumulative(depth, hash) ==
  LET cell == get_cell(depth, hash) IN cell[2] - cell[1]

\* exec_gen: the capacities of the layers 1 and 2, from the number nc2 of
\* the cells of depth 2 whose get_cell_noncumulative is not zero, that is of
\* the cells of depth 2 that hold rows, and AlgoParams::new.
AlgoParams ==
  LET nc2          == Cardinality({ HpxAt(r, 2) : r \in 0 .. nrows - 1 })
      one_plus_r21 == 1 + hipsIn.r21
      n12_allsky   == hipsIn.n1 * one_plus_r21
      n12          == (n12_allsky * nc2) \div 192
      n1           == n12 \div one_plus_r21
      n2           == n12 - n1
  IN  [n12 |-> n12, n1 |-> n1, n2 |-> n2, one_plus_r21 |-> one_plus_r21,
       nt |-> hipsIn.n_tot]

rows_in_recno_range_except(recnos, except) ==
  SelectSeq(RecnoSeq(recnos), LAMBDA r : r \notin except)

n_cells_at_depth_plus_3(depth, hash, recnos) ==
  LET depth_plus_3 == depth + 3
  IN  IF depth_plus_3 <= hipsIn.idxDepth
      THEN Cardinality({ i \in 0 .. 63 :
                           get_cell_noncumulative(depth_plus_3, hash * 64 + i) > 0 })
      ELSE IF depth <= hipsIn.idxDepth
      THEN Cardinality({ HpxAt(r, depth_plus_3) % 64 : r \in RecnoSet(recnos) })
      ELSE Cardinality({ HpxAt(r, depth_plus_3) % 64 :
                           r \in { q \in RecnoSet(recnos) : HpxAt(q, depth) = hash } })

compute_recno_range(depth, hash, conservative) ==
  LET above == { r \in RecnoSet(conservative) : HpxAt(r, depth) > hash }
      stop  == IF above = {} THEN conservative[2]
               ELSE CHOOSE r \in above : \A q \in above : r <= q
      same  == { r \in RecnoSet(conservative) : r < stop /\ HpxAt(r, depth) = hash }
      first == IF same = {} THEN conservative[2]
               ELSE CHOOSE r \in same : \A q \in same : r <= q
  IN  IF above = {} THEN <<first, conservative[2]>>
      ELSE <<Min(first, stop), stop>>

recno_range(depth, hash, conservative) ==
  LET recnos == get_cell(depth, hash)
  IN  IF has_index(depth) THEN recnos
      ELSE compute_recno_range(depth, hash,
             << Max(conservative[1], recnos[1]), Min(conservative[2], recnos[2]) >>)

has_score == hipsIn.score # "none"

\* The score of a row.
score(recno) ==
  CASE hipsIn.score = "up"   -> recno
    [] hipsIn.score = "down" -> nrows - recno
    [] OTHER                 -> 0

\* Iterator::min_by over recnos in increasing order: the first of the
\* recnos of least score.
min_by(S) ==
  CHOOSE r \in S : \A q \in S : score(r) < score(q) \/ (score(r) = score(q) /\ r <= q)

recno_having_highest_score(recnos) ==
  IF ~has_score THEN (recnos[1] + recnos[2]) \div 2
  ELSE min_by(RecnoSet(recnos))

recno_having_highest_score_except(recnos, already_selected) ==
  IF ~has_score
  THEN LET middle == (recnos[1] + recnos[2]) \div 2
           down   == { r \in recnos[1] .. middle - 1 : r \notin already_selected }
           up     == { r \in middle .. recnos[2] - 1 : r \notin already_selected }
       IN  IF down # {} THEN CHOOSE r \in down : \A q \in down : r >= q
           ELSE IF up # {} THEN CHOOSE r \in up : \A q \in up : r <= q
           ELSE NoRecno
  ELSE LET free == RecnoSet(recnos) \ already_selected
       IN  IF free = {} THEN NoRecno ELSE min_by(free)

\* The range of recnos of a sub-cell, as LayerExpl::exec looks it up.
SubRecnos(next_depth, next_subh, conservative) ==
  IF has_index(next_depth) THEN recno_range(next_depth, next_subh, conservative)
  ELSE compute_recno_range(next_depth, next_subh, conservative)

\* "while subh_recnos.start == subh_recnos.end": go to the next non-empty
\* sub-cell; panic tells that the assertion next_subh < next_endh failed.
RECURSIVE SkipEmptySub(_, _, _, _, _)
SkipEmptySub(next_depth, next_subh, subh_recnos, recnos, next_endh) ==
  IF subh_recnos[1] # subh_recnos[2]
  THEN [panic |-> FALSE, subh |-> next_subh, recnos |-> subh_recnos]
  ELSE IF next_subh + 1 >= next_endh
  THEN [panic |-> TRUE, subh |-> next_subh + 1, recnos |-> subh_recnos]
  ELSE SkipEmptySub(next_depth, next_subh + 1,
                    SubRecnos(next_depth, next_subh + 1, recnos), recnos, next_endh)

\* fitsw.write_row on the layer of a depth.
write_row(st, depth, recno) == [st EXCEPT !.layers[depth] = Append(@, recno)]

\* LayerExpl::new for the sub-layer, when self.sublayer is None.
WithLayer(ls, depth) == IF depth \in DOMAIN ls THEN ls ELSE Append(ls, <<>>)

\* selected_recnos.extract_if(recnos, |_v| true).for_each(drop)
DropRange(st, recnos) == [st EXCEPT !.sel = @ \ RecnoSet(recnos)]

\* The test of LayerExpl::exec that makes a tile a leaf.
MutIsLeaf(nrows_available, nrows_to_select) == nrows_available <= nrows_to_select

IsLeaf(nrows_available, nrows_to_select) ==
  nrows_available <= (3 * nrows_to_select) \div 2

(***************************************************************************)
(* LayerExpl::exec.  The state st is [layers, moc, sel, tiles, panic]: the *)
(* layer files, the cells pushed to the MOC builder, selected_recnos, the  *)
(* tiles completed and whether an assertion failed.  Inside a call, acc is *)
(* [st, sub, written]: the state, the current sub-cell [subh, recnos] and  *)
(* the rows the call wrote to its own layer.                               *)
(***************************************************************************)
RECURSIVE Exec(_, _, _, _)
RECURSIVE ExecCell(_, _, _, _, _, _, _)
RECURSIVE Descend(_, _, _, _, _, _)
RECURSIVE ChunkLoop(_, _, _, _, _, _, _)
RECURSIVE ChunkLoopBody(_, _, _, _, _, _, _, _)
RECURSIVE SubLoop(_, _, _, _, _)
RECURSIVE SubLoopEnd(_, _, _, _, _, _)
RECURSIVE SubLoopNext(_, _, _, _, _, _)

\* "while subh_recnos.end <= to_recno": exec on the sub-cells wholly read.
SubLoop(depth, hash, recnos, to_recno, acc) ==
  IF acc.st.panic \/ acc.sub.recnos[2] > to_recno THEN acc
  ELSE SubLoopEnd(depth, hash, recnos, to_recno, acc,
                  Exec(depth + 1, acc.sub.subh, acc.sub.recnos,
                       [acc.st EXCEPT !.layers = WithLayer(@, depth + 1)]))

\* The iteration after sublayer.exec returned st1: the recnos of the sub-cell
\* leave selected_recnos, then the next sub-cell is looked up, or break.
SubLoopEnd(depth, hash, recnos, to_recno, acc, st1) ==
  IF st1.panic THEN [acc EXCEPT !.st = st1]
  ELSE IF acc.sub.recnos[2] < recnos[2]
  THEN SubLoopNext(depth, hash, recnos, to_recno,
                   [acc EXCEPT !.st = DropRange(st1, acc.sub.recnos)],
                   SkipEmptySub(depth + 1, acc.sub.subh + 1,
                                SubRecnos(depth + 1, acc.sub.subh + 1,
                                          <<acc.sub.recnos[2], recnos[2]>>),
                                recnos, (hash + 1) * 4))
  ELSE [acc EXCEPT !.st = DropRange(st1, acc.sub.recnos)]

SubLoopNext(depth, hash, recnos, to_recno, acc, nxt) ==
  IF nxt.panic THEN [acc EXCEPT !.st.panic = TRUE]
  ELSE SubLoop(depth, hash, recnos, to_recno,
               [acc EXCEPT !.sub = [subh |-> nxt.subh, recnos |-> nxt.recnos]])

\* The row selected in a chunk, if any, is written to the layer of the tile
\* and joins selected_recnos.
WriteSelected(depth, acc, selected_recno) ==
  IF selected_recno = NoRecno THEN acc
  ELSE [acc EXCEPT !.st = [write_row(acc.st, depth, selected_recno)
                             EXCEPT !.sel = @ \cup {selected_recno}],
                   !.written = Append(@, selected_recno)]

\* "for k in 1..=nrows_to_select": one row selected per chunk of the cell,
\* then the sub-cells the chunks read so far cover.
ChunkLoop(depth, hash, recnos, nrows_to_select, k, from_recno, acc) ==
  IF k > nrows_to_select \/ acc.st.panic THEN acc
  ELSE ChunkLoopBody(depth, hash, recnos, nrows_to_select, k, from_recno,
                     recnos[1] + (k * (recnos[2] - recnos[1])) \div nrows_to_select,
                     acc)

ChunkLoopBody(depth, hash, recnos, nrows_to_select, k, from_recno, to_recno, acc) ==
  ChunkLoop(depth, hash, recnos, nrows_to_select, k + 1, to_recno,
            SubLoop(depth, hash, recnos, to_recno,
                    WriteSelected(depth, acc,
                      recno_having_highest_score_except(<<from_recno, to_recno>>,
                                                        acc.st.sel))))

\* Leaf: all the rows of the cell not yet selected are written to the layer
\* of the tile, and the cell is pushed to the MOC builder.
PutAllRemaining(depth, hash, st, remaining) ==
  [st |-> [st EXCEPT !.layers[depth] = @ \o remaining,
                     !.moc = @ \cup {<<depth, hash>>}],
   written |-> remaining]

\* Not a leaf: from the first non-empty sub-cell, the loop over the chunks.
Descend(depth, hash, recnos, nrows_to_select, st, first) ==
  IF first.panic THEN [st |-> [st EXCEPT !.panic = TRUE], written |-> <<>>]
  ELSE ChunkLoop(depth, hash, recnos, nrows_to_select, 1, recnos[1],
                 [st |-> st, sub |-> [subh |-> first.subh, recnos |-> first.recnos],
                  written |-> <<>>])

\* The end of exec: the recnos of the cell leave selected_recnos, the tile
\* statistics are appended, the cell joins the cells of the layer.
ExecEnd(depth, hash, recnos, nrows_tot_in_cell, nrows_selected, res) ==
  IF res.st.panic THEN res.st
  ELSE [DropRange(res.st, recnos) EXCEPT
          !.tiles = Append(@, [depth |-> depth, hash |-> hash,
                               tot_count |-> nrows_tot_in_cell,
                               cumul_count |-> nrows_selected + Len(res.written)])]

ExecCell(depth, hash, recnos, st, nrows_tot_in_cell, nrows_selected, nrows_to_select) ==
  ExecEnd(depth, hash, recnos, nrows_tot_in_cell, nrows_selected,
    IF IsLeaf(nrows_tot_in_cell - nrows_selected, nrows_to_select)
    THEN PutAllRemaining(depth, hash, st, rows_in_recno_range_except(recnos, st.sel))
    ELSE Descend(depth, hash, recnos, nrows_to_select, st,
                 SkipEmptySub(depth + 1, hash * 4,
                              SubRecnos(depth + 1, hash * 4, recnos),
                              recnos, (hash + 1) * 4)))

Exec(depth, hash, recnos, st) ==
  ExecCell(depth, hash, recnos, st,
           recnos[2] - recnos[1],
           Cardinality(st.sel \cap RecnoSet(recnos)),
           (algo.nt * n_cells_at_depth_plus_3(depth, hash, recnos)) \div 64)

\* Layer1and2::exec, third branch: the cells of depth 3.
LastH3 == 767

RECURSIVE SkipEmptyH3(_, _)
SkipEmptyH3(h3, recnos) ==
  IF recnos[1] # recnos[2] THEN [panic |-> FALSE, h3 |-> h3, recnos |-> recnos]
  ELSE IF h3 >= LastH3 THEN [panic |-> TRUE, h3 |-> h3, recnos |-> recnos]
  ELSE SkipEmptyH3(h3 + 1, recno_range(3, h3 + 1, <<0, nrows>>))

\* "while h3_recnos.end <= recno_cursors.end": layer3.exec on the cells of
\* depth 3 wholly read.  acc is [st, next_h3, h3_recnos, cursors].
RECURSIVE H3Loop(_)
RECURSIVE H3LoopEnd(_, _)
RECURSIVE H3LoopNext(_, _)

H3Loop(acc) ==
  IF acc.st.panic \/ acc.h3_recnos[2] > acc.cursors[2] THEN acc
  ELSE H3LoopEnd(acc, Exec(3, acc.next_h3, acc.h3_recnos, acc.st))

H3LoopEnd(acc, st1) ==
  IF st1.panic THEN [acc EXCEPT !.st = st1]
  ELSE IF acc.h3_recnos[2] < nrows
  THEN H3LoopNext([acc EXCEPT !.st = DropRange(st1, acc.h3_recnos),
                              !.cursors = <<acc.h3_recnos[2], acc.cursors[2]>>],
                  IF acc.next_h3 >= LastH3
                  THEN [panic |-> TRUE, h3 |-> acc.next_h3, recnos |-> acc.h3_recnos]
                  ELSE SkipEmptyH3(acc.next_h3 + 1,
                                   recno_range(3, acc.next_h3 + 1,
                                               <<acc.h3_recnos[2], nrows>>)))
  ELSE [acc EXCEPT !.st = DropRange(st1, acc.h3_recnos),
                   !.cursors = <<acc.h3_recnos[2], acc.cursors[2]>>]

H3LoopNext(acc, nxt) ==
  IF nxt.panic THEN [acc EXCEPT !.st.panic = TRUE]
  ELSE H3Loop([acc EXCEPT !.next_h3 = nxt.h3, !.h3_recnos = nxt.recnos])

chunk_size == (nrows + algo.n12 - 1) \div algo.n12

\* State at the entry of the branches of Layer1and2::exec: the file of
\* layer 1 is created, nothing is written.
HipsInit ==
  /\ hipsIn \in HipsInputs
  /\ algo = AlgoParams
  /\ hipsPc = "start"
  /\ layers = << <<>> >>
  /\ moc = {}
  /\ selected_recnos = {}
  /\ tiles = <<>>
  /\ i12 = 0
  /\ next_h3 = 0
  /\ h3_recnos = <<0, 0>>
  /\ recno_cursors = <<0, 0>>
  /\ layerNaxis2 = <<>>
  /\ CsvIdle
  /\ HciIdle
  /\ QIdle
  /\ HsIdle
  /\ ItIdle
  /\ BtIdle
  /\ ExIdle
  /\ PadIdle
  /\ ExpIdle
  /\ KwIdle

\* First branch: all the rows go to layer 1; build_moc pushes the cells of
\* depth 1 that hold rows.
HipsLayer1Only ==
  /\ hipsPc = "start"
  /\ nrows <= (3 * algo.n1) \div 2
  /\ layers' = [layers EXCEPT ![1] = @ \o RecnoSeq(<<0, nrows>>)]
  /\ moc' = moc \cup { <<1, HpxAt(r, 1)>> : r \in 0 .. nrows - 1 }
  /\ hipsPc' = "finalize"
  /\ UNCHANGED <<hipsIn, algo, selected_recnos, tiles, i12, next_h3, h3_recnos,
                 recno_cursors, layerNaxis2>>
  /\ UNCHANGED hipsOthers

\* Second branch: whether a row goes to layer 1 (else to layer 2).
GoesToLayer1(recno) ==
  IF ~has_score THEN recno % algo.one_plus_r21 = 0
  ELSE LET recno_start == (recno \div algo.one_plus_r21) * algo.one_plus_r21
       IN  recno = recno_having_highest_score(
                     <<recno_start, Min(recno_start + algo.one_plus_r21, nrows)>>)

\* Second branch: every row goes to layer 1 or to layer 2; the cell of depth
\* 2 of every row is pushed to the MOC builder.
HipsLayers1and2 ==
  /\ hipsPc = "start"
  /\ nrows > (3 * algo.n1) \div 2
  /\ nrows <= (3 * algo.n12) \div 2
  /\ layers' = << layers[1] \o SelectSeq(RecnoSeq(<<0, nrows>>), GoesToLayer1),
                  SelectSeq(RecnoSeq(<<0, nrows>>), LAMBDA r : ~GoesToLayer1(r)) >>
  /\ moc' = moc \cup { <<2, HpxAt(r, 2)>> : r \in 0 .. nrows - 1 }
  /\ hipsPc' = "finalize"
  /\ UNCHANGED <<hipsIn, algo, selected_recnos, tiles, i12, next_h3, h3_recnos,
                 recno_cursors, layerNaxis2>>
  /\ UNCHANGED hipsOthers

\* Third branch, before the loop over the chunks: the files of the layers 2
\* and 3 are created, the first non-empty cell of depth 3 is looked up.
HipsLayers1to3Begin ==
  /\ hipsPc = "start"
  /\ nrows > (3 * algo.n1) \div 2
  /\ nrows > (3 * algo.n12) \div 2
  /\ layers' = layers \o << <<>>, <<>> >>
  /\ IF algo.n12 = 0 \/ chunk_size < 2
     THEN /\ hipsPc' = "panic"
          /\ UNCHANGED <<next_h3, h3_recnos>>
     ELSE \E first \in { SkipEmptyH3(0, recno_range(3, 0, <<0, nrows>>)) } :
            /\ hipsPc' = (IF first.panic THEN "panic" ELSE "chunks")
            /\ next_h3' = first.h3
            /\ h3_recnos' = first.recnos
  /\ UNCHANGED <<hipsIn, algo, moc, selected_recnos, tiles, i12, recno_cursors, layerNaxis2>>
  /\ UNCHANGED hipsOthers

\* Third branch, one iteration of the loop over the chunks: one row of the
\* chunk goes to layer 1 or 2, then the cells of depth 3 wholly read are
\* processed by layer3.exec.
HipsChunk ==
  /\ hipsPc = "chunks"
  /\ \E recnos \in { <<i12 * chunk_size, Min(i12 * chunk_size + chunk_size, nrows)>> } :
     \E selected_recno \in { recno_having_highest_score(recnos) } :
     \E layer \in { IF i12 % algo.one_plus_r21 = 0 THEN 1 ELSE 2 } :
     \E res \in { H3Loop([st |-> [layers |-> [layers EXCEPT ![layer] =
                                                Append(@, selected_recno)],
                                  moc    |-> moc,
                                  sel    |-> selected_recnos \cup {selected_recno},
                                  tiles  |-> tiles,
                                  panic  |-> FALSE],
                          next_h3   |-> next_h3,
                          h3_recnos |-> h3_recnos,
                          cursors   |-> <<recno_cursors[1], recnos[2]>>]) } :
       /\ layers' = res.st.layers
       /\ moc' = res.st.moc
       /\ selected_recnos' = res.st.sel
       /\ tiles' = res.st.tiles
       /\ next_h3' = res.next_h3
       /\ h3_recnos' = res.h3_recnos
       /\ recno_cursors' = res.cursors
       /\ hipsPc' = (IF res.st.panic THEN "panic"
                     ELSE IF (i12 + 1) * chunk_size >= nrows THEN "finalize"
                     ELSE "chunks")
  /\ i12' = i12 + 1
  /\ UNCHANGED <<hipsIn, algo, layerNaxis2>>
  /\ UNCHANGED hipsOthers

\* finalize of every layer: NAXIS2 of its file is rewritten with
\* n_written_rows.
HipsFinalize ==
  /\ hipsPc = "finalize"
  /\ layerNaxis2' = [d \in DOMAIN layers |-> Len(layers[d])]
  /\ hipsPc' = "done"
  /\ UNCHANGED <<hipsIn, algo, layers, moc, selected_recnos, tiles, i12, next_h3,
                 h3_recnos, recno_cursors>>
  /\ UNCHANGED hipsOthers

HipsNext ==
  \/ HipsLayer1Only
  \/ HipsLayers1and2
  \/ HipsLayers1to3Begin
  \/ HipsChunk
  \/ HipsFinalize

SpecHips == HipsInit /\ [][HipsNext]_vars

-----------------------------------------------------------------------------
(***************************************************************************)
(* Claims about the HiPS build.                                            *)
(***************************************************************************)
\* The places of the layer files: <<depth, number of the row in the file>>.
LayerSlots == UNION { { <<d, k>> : k \in DOMAIN layers[d] } : d \in DOMAIN layers }

\* Number of times an input row is found in the layer files.
TimesWritten(recno) == Cardinality({ p \in LayerSlots : layers[p[1]][p[2]] = recno })

RECURSIVE SumSeq(_)
SumSeq(s) == IF s = <<>> THEN 0 ELSE Head(s) + SumSeq(Tail(s))

\* C8 (as claimed): for every sorted, indexed input and every setting of the
\* tile capacities, the build writes each input row to exactly one layer
\* file, so the row counts of the layer files sum to the input row count.
C8_EachRowInExactlyOneLayer ==
  hipsPc = "done" =>
    /\ \A r \in 0 .. nrows - 1 : TimesWritten(r) = 1
    /\ SumSeq(layerNaxis2) = nrows

\* The rows of a tile, and those of them no layer above the tile holds: the
\* rows not yet selected when the tile is processed.
TileRows(depth, hash) == { r \in 0 .. nrows - 1 : HpxAt(r, depth) = hash }

NotYetSelected(depth, hash) ==
  { r \in TileRows(depth, hash) :
      \A p \in LayerSlots : p[1] < depth => layers[p[1]][p[2]] # r }

\* The target row count of a tile: n_tot * cov3 / 64 rows, cov3 counting the
\* non-empty cells three levels below the tile.
TargetRows(depth, hash) ==
  (hipsIn.n_tot * Cardinality({ HpxAt(r, depth + 3) : r \in TileRows(depth, hash) })) \div 64

IsDescendant(t, u) ==
  /\ u.depth > t.depth
  /\ u.hash \div Pow4(u.depth - t.depth) = t.hash

\* C9: in the recursion from level 3, a tile is marked as a leaf, its range
\* pushed to the coverage map, if and only if its number of not-yet-selected
\* rows is at most 1.5 times its target row count when it is processed; then
\* all its not-yet-selected rows are written to the layer of the tile and no
\* descendant tile is visited.
C9_LeafIffFewRowsLeft ==
  \A k \in DOMAIN tiles :
    LET t    == tiles[k]
        left == NotYetSelected(t.depth, t.hash)
        few  == 2 * Cardinality(left) <= 3 * TargetRows(t.depth, t.hash)
    IN  /\ (<<t.depth, t.hash>> \in moc) <=> few
        /\ few => /\ \A r \in left :
                       \E j \in DOMAIN layers[t.depth] : layers[t.depth][j] = r
                  /\ \A j \in DOMAIN tiles : ~IsDescendant(t, tiles[j])

\* C9 witness: a build that went down to a leaf below level 3 which holds
\* rows, under a tile that is not a leaf.
C9_Witness ==
  /\ hipsPc = "done"
  /\ \E k \in DOMAIN tiles, j \in DOMAIN tiles :
       /\ <<tiles[k].depth, tiles[k].hash>> \in moc
       /\ tiles[k].depth > 3
       /\ NotYetSelected(tiles[k].depth, tiles[k].hash) # {}
       /\ <<tiles[j].depth, tiles[j].hash>> \notin moc
       /\ IsDescendant(tiles[j], tiles[k])

\* The chunks of one_plus_r21 consecutive rows of the second branch run with
\* a score: the ranges <<recno_start, end>> of Layer1and2::exec.
ScoreChunks ==
  { <<k * algo.one_plus_r21, Min((k + 1) * algo.one_plus_r21, nrows)>> :
      k \in { j \in 0 .. nrows : j * algo.one_plus_r21 < nrows } }

InLayer(depth, recno) == \E k \in DOMAIN layers[depth] : layers[depth][k] = recno

\* The build took the second branch (layers 1 and 2 only) with a score.
SecondBranchWithScore ==
  /\ hipsPc \in {"finalize", "done"}
  /\ has_score
  /\ nrows > (3 * algo.n1) \div 2
  /\ nrows <= (3 * algo.n12) \div 2

\* C23 (as claimed): with a score, when the rows are partitioned across the
\* levels 1 and 2 only, in every chunk of 1 + r21 consecutive rows the row sent
\* to level 1 has a score that is maximal in the chunk, and all the other rows
\* of the chunk go to level 2.
C23_MaxScoreToLevel1 ==
  SecondBranchWithScore =>
    \A c \in ScoreChunks :
      \E sel \in RecnoSet(c) :
        /\ InLayer(1, sel)
        /\ \A q \in RecnoSet(c) : score(sel) >= score(q)
        /\ \A q \in RecnoSet(c) \ {sel} : InLayer(2, q) /\ ~InLayer(1, q)

\* C25 (as claimed): the design parameters computed from the configuration
\* satisfy n1 + n2 = n12 and n2 = r21 * n1.
C25_DesignParameters ==
  hipsPc # "idle" =>
    /\ algo.n1 + algo.n2 = algo.n12
    /\ algo.n2 = hipsIn.r21 * algo.n1

-----------------------------------------------------------------------------
(***************************************************************************)
(* HEALPix sort of a single file: hsort_file (src/read/hsort.rs).          *)
(*                                                                         *)
(* A row is [pos, tag]: pos is NaNPos when its longitude or latitude is    *)
(* NaN, else its hash on a small grid that stands for the depth-29 grid;   *)
(* tag stands for the other columns, so that two rows of the same position *)
(* may differ.  The sort itself belongs to the cdshealpix library          *)
(* (hpx_internal_sort, hpx_external_sort_with_knowledge): it is modelled   *)
(* by what a sort by key returns, any arrangement of the rows it was given *)
(* whose keys are non-decreasing.                                          *)
(***************************************************************************)
MaxSortRows == 3     \* largest number of table rows explored

MaxSortHash == 1     \* the positions fall in the cells 0 .. MaxSortHash

SortTags == {0, 1}

\* internal_threshold values: one row wide, and larger than every table.
SortThresholds == {16, 1000}

SortRowValues == { [pos |-> p, tag |-> g] : p \in NaNPos .. MaxSortHash, g \in SortTags }

HsortInputs ==
  { [rows |-> r, internal_threshold |-> th, rowSize |-> 16] :
      r \in SeqsUpTo(SortRowValues, MaxSortRows), th \in SortThresholds }

\* Mutant of hpx29v: a row with a NaN coordinate is hashed after every cell.
MutHpx29v(row) == IF row.pos = NaNPos THEN MaxSortHash + 1 ELSE row.pos

\* The position provider: the closures hpx29v and hpx29 of hsort_file.
hpx29v(row) == IF row.pos = NaNPos THEN 0 ELSE row.pos

\* What a sort of rows by the key hpx29v may return.
SortedByKey(rows) ==
  { [k \in 1 .. Len(rows) |-> rows[p[k]]] :
      p \in { q \in Permutations(1 .. Len(rows)) :
                \A k \in 1 .. Len(rows) - 1 :
                  hpx29v(rows[q[k]]) <= hpx29v(rows[q[k + 1]]) } }

\* hpx_internal_sort(rows.as_mut_slice(), hpx29v, parallel)
hpx_internal_sort(rows) == SortedByKey(rows)

\* hpx_external_sort_with_knowledge(rows, &count_map, hpx29v, Some(sort_params))
hpx_external_sort_with_knowledge(rows) == SortedByKey(rows)

main_table_byte_size == Len(hsIn.rows) * hsIn.rowSize

\* State after bintable_hdu.copy_header(&mut writer).
HsortInit ==
  /\ hsIn \in HsortInputs
  /\ hsPc = "sort"
  /\ hsExternal = FALSE
  /\ hsOut = <<>>
  /\ CsvIdle
  /\ HciIdle
  /\ QIdle
  /\ HipsIdle
  /\ ItIdle
  /\ BtIdle
  /\ ExIdle
  /\ PadIdle
  /\ ExpIdle
  /\ KwIdle

\* for row in rows { writer.write_all(row)? }: the rows are written in the
\* order of the sort; a failed write returns the error, the rows written
\* before it stay in the output.
WriteSortedRows(sorted) ==
  \E nWritten \in 0 .. Len(sorted) :
    /\ hsOut' = SubSeq(sorted, 1, nWritten)
    /\ hsPc' = IF nWritten = Len(sorted) THEN "rows" ELSE "error"

\* main_table_byte_size <= internal_threshold: internal sort, then the rows
\* are written.
HsortInternal ==
  /\ hsPc = "sort"
  /\ main_table_byte_size <= hsIn.internal_threshold
  /\ \E sorted \in hpx_internal_sort(hsIn.rows) : WriteSortedRows(sorted)
  /\ hsExternal' = FALSE
  /\ UNCHANGED hsIn
  /\ UNCHANGED hsOthers

\* Otherwise: external sort, then the rows of the iterator are written.
HsortExternal ==
  /\ hsPc = "sort"
  /\ ~(main_table_byte_size <= hsIn.internal_threshold)
  /\ \E sorted \in hpx_external_sort_with_knowledge(hsIn.rows) : WriteSortedRows(sorted)
  /\ hsExternal' = TRUE
  /\ UNCHANGED hsIn
  /\ UNCHANGED hsOthers

\* The heap, the padding and the other HDUs are copied; Ok(()).
HsortCopyRest ==
  /\ hsPc = "rows"
  /\ hsPc' = "done"
  /\ UNCHANGED <<hsIn, hsExternal, hsOut>>
  /\ UNCHANGED hsOthers

HsortNext == HsortInternal \/ HsortExternal \/ HsortCopyRest

SpecHsort == HsortInit /\ [][HsortNext]_vars

-----------------------------------------------------------------------------
(***************************************************************************)
(* Claims about the HEALPix sort.                                          *)
(***************************************************************************)
\* Number of occurrences of a row in a sequence of rows.
CountIn(s, row) == Cardinality({ k \in DOMAIN s : s[k] = row })

\* The depth-29 hash of a row, a row with a NaN coordinate counting as 0.
HashNaNAsZero(row) == IF row.pos = NaNPos THEN 0 ELSE row.pos

-----------------------------------------------------------------------------
(***************************************************************************)
(* Iterator over the HDUs of a byte slice: HDUIterator::next               *)
(* (src/read/slice.rs) and RawHeader::from_slice (src/hdu/header/raw.rs).  *)
(*                                                                         *)
(* The bytes are a sequence of whole 2880-byte blocks, followed or not by  *)
(* a cut block of cutLen bytes.  A block is [kw, end, data, buildOk]: its  *)
(* first keyword, whether one of its 36 records starts with END, and, for  *)
(* the case the block opens a header, the data byte size the parsed header *)
(* gives and whether the header builder accepts the header.  The cut block *)
(* is known by its first keyword (tail), "none" when there is none.        *)
(***************************************************************************)
MaxFileBlocks == 2   \* largest number of whole blocks explored

MaxNextCalls == 3    \* largest number of calls of next explored

Keywords == {"SIMPLE", "XTENSION", "OTHER"}

DataSizes == {0, 100, FitsBlock}

BlockValues ==
  { [kw |-> k, end |-> e, data |-> d, buildOk |-> b] :
      k \in Keywords, e \in BOOLEAN, d \in DataSizes, b \in BOOLEAN }

ItInputs ==
  { [blocks |-> bs, tail |-> tl, cutLen |-> IF tl = "none" THEN 0 ELSE 100] :
      bs \in SeqsUpTo(BlockValues, MaxFileBlocks), tl \in Keywords \cup {"none"} }

\* self.bytes.len()
BytesLen == FitsBlock * Len(itIn.blocks) + itIn.cutLen

\* Number (from 1) of the block that starts at byte p.
BlockAt(p) == p \div FitsBlock + 1

\* The keyword bytes[KW_RANGE] of the bytes that start at p.
KeywordAt(p) ==
  IF BlockAt(p) <= Len(itIn.blocks) THEN itIn.blocks[BlockAt(p)].kw ELSE itIn.tail

\* RawHeader::check_first_keyword: TRUE for Ok(()).
check_first_keyword(is_primary, p) ==
  IF is_primary /\ KeywordAt(p) # "SIMPLE" THEN FALSE
  ELSE IF ~is_primary /\ KeywordAt(p) # "XTENSION" THEN FALSE
  ELSE TRUE

\* The loop of RawHeader::from_slice from the block q: the number of the block
\* that holds the END record; 0 when bytes.split_at(2880) panics because fewer
\* than 2880 bytes are left.
RECURSIVE HeaderLoop(_)
HeaderLoop(q) ==
  IF q > Len(itIn.blocks) THEN 0
  ELSE IF itIn.blocks[q].end THEN q
  ELSE HeaderLoop(q + 1)

\* RawHeader::from_slice(is_primary, &self.bytes[self.ptr..])
from_slice(is_primary, p) ==
  IF ~check_first_keyword(is_primary, p) THEN [res |-> "err", byte_size |-> 0]
  ELSE LET last == HeaderLoop(BlockAt(p))
       IN  IF last = 0 THEN [res |-> "panic", byte_size |-> 0]
           ELSE [res |-> "ok", byte_size |-> FitsBlock * (last - BlockAt(p) + 1)]

\* raw_header.build(is_primary): TRUE for Ok(parsed_header).
build(p) == itIn.blocks[BlockAt(p)].buildOk

\* parsed_header.data_byte_size()
data_byte_size(p) == itIn.blocks[BlockAt(p)].data

\* if self.ptr % 2880 != 0 { self.ptr = (1 + self.ptr / 2880) * 2880 }
AlignPtr(p) == IF p % FitsBlock # 0 THEN (1 + p \div FitsBlock) * FitsBlock ELSE p

\* State after HDUIterator::from_slice(bytes).
ItInit ==
  /\ itIn \in ItInputs
  /\ ptr = 0
  /\ itPc = "ready"
  /\ itCalls = <<>>
  /\ CsvIdle
  /\ HciIdle
  /\ QIdle
  /\ HipsIdle
  /\ HsIdle
  /\ BtIdle
  /\ ExIdle
  /\ PadIdle
  /\ ExpIdle
  /\ KwIdle

Called(res) ==
  /\ itPc = "ready"
  /\ Len(itCalls) < MaxNextCalls
  /\ itCalls' = Append(itCalls, [at |-> ptr, res |-> res])
  /\ UNCHANGED itIn
  /\ UNCHANGED itOthers

\* next with self.ptr >= self.bytes.len(): None.
NextNone ==
  /\ ptr >= BytesLen
  /\ Called("none")
  /\ UNCHANGED <<ptr, itPc>>

\* next, from_slice returns Err: Some(Err), the cursor does not move.
NextHeaderErr ==
  /\ ptr < BytesLen
  /\ from_slice(ptr = 0, ptr).res = "err"
  /\ Called("err")
  /\ UNCHANGED <<ptr, itPc>>

\* next, from_slice panics in split_at: the call does not return.
NextHeaderPanic ==
  /\ ptr < BytesLen
  /\ from_slice(ptr = 0, ptr).res = "panic"
  /\ Called("panic")
  /\ itPc' = "panicked"
  /\ UNCHANGED ptr

\* next, the header is read but build returns Err: Some(Err), the cursor is
\* after the header.
NextBuildErr ==
  /\ ptr < BytesLen
  /\ from_slice(ptr = 0, ptr).res = "ok"
  /\ ~build(ptr)
  /\ Called("err")
  /\ ptr' = ptr + from_slice(ptr = 0, ptr).byte_size
  /\ UNCHANGED itPc

\* next, the header is built but the data slice runs past the bytes:
\* &remaining_bytes[..data_byte_size] panics.
NextDataPanic ==
  /\ ptr < BytesLen
  /\ from_slice(ptr = 0, ptr).res = "ok"
  /\ build(ptr)
  /\ ptr + from_slice(ptr = 0, ptr).byte_size + data_byte_size(ptr) > BytesLen
  /\ Called("panic")
  /\ itPc' = "panicked"
  /\ ptr' = ptr + from_slice(ptr = 0, ptr).byte_size + data_byte_size(ptr)

\* next yields a HDU: the cursor moves after the data, then to the start of
\* the next block.
NextHdu ==
  /\ ptr < BytesLen
  /\ from_slice(ptr = 0, ptr).res = "ok"
  /\ build(ptr)
  /\ ptr + from_slice(ptr = 0, ptr).byte_size + data_byte_size(ptr) <= BytesLen
  /\ Called("hdu")
  /\ ptr' = AlignPtr(ptr + from_slice(ptr = 0, ptr).byte_size + data_byte_size(ptr))
  /\ UNCHANGED itPc

ItNext ==
  \/ NextNone
  \/ NextHeaderErr
  \/ NextHeaderPanic
  \/ NextBuildErr
  \/ NextDataPanic
  \/ NextHdu

SpecHduIt == ItInit /\ [][ItNext]_vars

-----------------------------------------------------------------------------
(***************************************************************************)
(* Claims about the iterator over the HDUs.                                *)
(***************************************************************************)
\* C14 (as claimed): once the iterator has yielded an error, iteration stops:
\* every later call of next yields nothing, neither a further HDU nor a
\* further error.
C14_NothingAfterError ==
  \A i, j \in DOMAIN itCalls :
    (i < j /\ itCalls[i].res = "err") => itCalls[j].res = "none"

\* The keyword a header at byte p has to start with.
ExpectedKeyword(p) == IF p = 0 THEN "SIMPLE" ELSE "XTENSION"

\* No whole block from byte p on holds an END record: the header that starts
\* at p is cut before a full block, or is not terminated before the end of the
\* bytes.
NoEndFrom(p) ==
  \A q \in BlockAt(p) .. Len(itIn.blocks) : ~itIn.blocks[q].end

\* C15 (as claimed): when the bytes at the cursor start with a keyword that is
\* neither SIMPLE (first HDU) nor XTENSION (later HDUs), or the header is cut
\* before a full 2880-byte block, or no END record occurs before the end of
\* the input, the iterator yields a failure for that HDU instead of a HDU.
C15_BadHeaderYieldsFailure ==
  \A k \in DOMAIN itCalls :
    (/\ itCalls[k].at < BytesLen
     /\ \/ KeywordAt(itCalls[k].at) # ExpectedKeyword(itCalls[k].at)
        \/ NoEndFrom(itCalls[k].at))
    => itCalls[k].res = "err"

-----------------------------------------------------------------------------
(***************************************************************************)
(* BINTABLE columns: BinTableColumnHeader::schema, heap_array_data_type,   *)
(* build_row_schema, RowSchema::from_iter, Schema::stored_byte_len and     *)
(* the decoding of the first field of a row (FieldSchema::deserialize over *)
(* DeserializerWithHeap).                                                  *)
(* An optional keyword is <<>> when absent and <<v>> when present.  Field  *)
(* storage is the value the big-endian read returns (read_u8, read_i16,    *)
(* read_i32, read_i64, read_f32, read_f64): the bytes 0x8000 of a 16-bit   *)
(* column are the storage -32768, 0x7FFF is 32767, and the bytes           *)
(* 0x80000000 of a 32-bit column are MinI32.  Floating-point values are    *)
(* integers small enough for the f32 and f64 arithmetic to be exact.       *)
(***************************************************************************)
MaxRepeat == 2
MaxCols == 2

MinI32 == -2147483647 - 1

\* UIF64: kind "U64" | "I64" | "F64"; the value is m * 2^e.
UIF64(kind, m, e) == [kind |-> kind, m |-> m, e |-> e]

\* TZERO of the signed byte, and of the unsigned 16, 32 and 64-bit integers.
I8Offset == UIF64("I64", -1, 7)
U16Offset == UIF64("U64", 1, 15)
U32Offset == UIF64("U64", 1, 31)
U64Offset == UIF64("U64", 1, 63)

is_0(o) == o.m = 0
is_i8_offset(o) == o = I8Offset
is_u16_offset(o) == o = U16Offset
is_u32_offset(o) == o = U32Offset
is_u64_offset(o) == o = U64Offset

\* UIF64::as_f32 / as_f64
as_f64(o) == o.m * (2 ^ o.e)

IntLetters == {"B", "I", "J", "K"}
ScaledLetters == IntLetters \cup {"E", "D", "C", "M"}
PlainLetters == {"L", "X", "A"}
HeapLetters == {"P", "Q"}
VdtLetters == {"L", "A", "B", "I", "J", "K", "E", "D", "C", "M"}

\* The canonical non-zero TZERO of an integer column type.
CanonicalOffset(letter) ==
  CASE letter = "B" -> I8Offset
    [] letter = "I" -> U16Offset
    [] letter = "J" -> U32Offset
    [] letter = "K" -> U64Offset

TscalValues == {<<>>, <<1>>, <<2>>}
TnullValues == {<<>>, <<-1>>, <<MinI32>>}

\* TZERO values drawn for a column of the given type and TSCAL.  A canonical
\* offset of 2^31 or 2^63 is drawn with a scale of 1 only: scaled, the sum
\* computed by the decoder is no TLC integer.
TzeroValues(letter, tscal) ==
  {<<>>, <<UIF64("U64", 5, 0)>>}
    \cup (IF letter \in {"B", "I"} \/ (letter \in {"J", "K"} /\ tscal # <<2>>)
          THEN {<<CanonicalOffset(letter)>>} ELSE {})

Column(tform, rc, vdt, tscal, tzero, tnull) ==
  [tform |-> tform, rc |-> rc, vdt |-> vdt, tscal |-> tscal, tzero |-> tzero,
   tnull |-> tnull]

\* Columns with every combination of TFORM, TSCAL, TZERO and TNULL.
FullColumns ==
  {Column(<<l>>, rc, "", ts, tz, tn) :
     l \in PlainLetters, rc \in 0 .. MaxRepeat, ts \in TscalValues,
     tz \in {<<>>, <<UIF64("U64", 5, 0)>>}, tn \in TnullValues}
  \cup UNION {{Column(<<l>>, rc, "", ts, tz, tn) :
                 rc \in 0 .. MaxRepeat, tz \in TzeroValues(l, ts),
                 tn \in TnullValues} :
              l \in ScaledLetters, ts \in TscalValues}
  \cup UNION {{Column(<<l>>, rc, v, ts, tz, tn) :
                 l \in HeapLetters, rc \in 0 .. 1, tz \in TzeroValues(v, ts),
                 tn \in {<<>>, <<-1>>}} :
              v \in {"L", "I", "J", "C"}, ts \in TscalValues}

\* Columns with a TFORM only, and the column without TFORM.
SimpleColumns ==
  {Column(<<l>>, rc, "", <<>>, <<>>, <<>>) :
     l \in PlainLetters \cup ScaledLetters, rc \in 0 .. MaxRepeat}
  \cup {Column(<<l>>, rc, "J", <<>>, <<>>, <<>>) : l \in HeapLetters, rc \in 0 .. 1}
  \cup {Column(<<>>, 1, "", <<>>, <<>>, <<>>)}

\* Storage of a field of a column of the given type.
StorageValues(letter) ==
  CASE letter = "B" -> {0, 128, 255}
    [] letter = "I" -> {-32768, -1, 0, 32767}
    [] letter = "J" -> {MinI32, -1, 0, 1}
    [] letter \in {"K", "E", "D"} -> {-1, 0, 1}
    [] OTHER -> {0}

Naxis1Values == {2, 4, 8, 16}

SeqsOfColumns(n) == [1 .. n -> SimpleColumns]

\* Storage drawn for the first field: a scalar is decoded, an array is not.
\* MinI32 is not drawn with a scale of 2: the product is no TLC integer.
StorageOf(c) ==
  IF c.rc # 1 THEN {0}
  ELSE IF c.tscal = <<2>> THEN StorageValues(c.tform[1]) \ {MinI32}
  ELSE StorageValues(c.tform[1])

\* The tables of n columns: one column of any kind with the storage of its
\* first field, or n columns that have a TFORM only.
BtInputs(n) ==
  (IF n = 1
   THEN UNION {{[naxis1 |-> n1, cols |-> <<c>>, storage |-> s] :
                  n1 \in Naxis1Values, s \in StorageOf(c)} : c \in FullColumns}
   ELSE {})
  \cup {[naxis1 |-> n1, cols |-> cs, storage |-> 0] :
          n1 \in Naxis1Values, cs \in SeqsOfColumns(n)}

\* A value of the enum Schema: the variant, its null sentinel (<<>> when the
\* variant has none), the array length, the scale and the offset of a
\* ScaleOffset32/64, and the variant of the HeapArraySchema it wraps.
\* The variant "todo!" stands for the panic of a todo!() arm.
Sch(variant, null, len, scale, offset, sub) ==
  [variant |-> variant, null |-> null, len |-> len, scale |-> scale,
   offset |-> offset, sub |-> sub]

Plain(variant) == Sch(variant, <<>>, 1, 1, 0, "")
Todo == Plain("todo!")

\* Casts of the value of TNULL, the i64 that schema() and the parse of the
\* VOTable null (null.parse::<i64>()) take it to be: as u8, as i16, as i32.
\* Every TLC integer is an i32, so that the last cast changes nothing.
AsU8(v) == v % 256
AsI16(v) == ((v + 32768) % 65536) - 32768
AsI32(v) == v

\* null.col_null_value() as u8 / as i16 / as i32 / (i64)
NullCast(letter, v) ==
  CASE letter = "B" -> AsU8(v)
    [] letter = "I" -> AsI16(v)
    [] letter = "J" -> AsI32(v)
    [] letter = "K" -> v

\* match rc.repeat_count() { 0 => Empty, 1 => scalar, len => array }
ByCount(rc, scalar, array) ==
  IF rc = 0 THEN Plain("Empty")
  ELSE IF rc = 1 THEN scalar
  ELSE array

\* The arms of an integer type that keep the storage type: base is
\* "UnsignedByte", "Byte", "Short", "UnsignedShort", ...
IntegerArm(col, base) ==
  LET letter == col.tform[1]
      null == IF col.tnull = <<>> THEN <<>>
              ELSE <<NullCast(letter, col.tnull[1])>>
      name == IF col.tnull = <<>> THEN base ELSE "Nullable" \o base
  IN  ByCount(col.rc, Sch(name, null, 1, 1, 0, ""),
              Sch(name \o "Array", null, col.rc, 1, 0, ""))

\* The arms that build a ScaleOffset32 / ScaleOffset64.
TransformArm(col, scalar, array, scale, offset) ==
  ByCount(col.rc, Sch(scalar, <<>>, 1, scale, as_f64(offset), ""),
          Sch(array, <<>>, col.rc, scale, as_f64(offset), ""))

\* heap_array_data_type(vdt, hap, scale, offset): the variant, "todo!" for
\* the arms that panic.
heap_array_data_type(vdt, scale, offset) ==
  CASE vdt = "L" -> "HeapNullableBooleanArray"
    [] vdt = "A" -> "HeapAsciiString"
    [] vdt = "B" -> IF scale = 1 /\ is_0(offset) THEN "HeapUnsignedByteArray"
                    ELSE IF scale = 1 /\ is_i8_offset(offset) THEN "HeapByteArray"
                    ELSE "HeapFloatArrayFromByte"
    [] vdt = "I" -> IF scale = 1 /\ is_0(offset) THEN "HeapShortArray"
                    ELSE IF scale = 1 /\ is_u16_offset(offset)
                         THEN "HeapUnsignedShortArray"
                    ELSE "HeapFloatArrayFromShort"
    [] vdt = "J" -> IF scale = 1 /\ is_0(offset) THEN "HeapIntArray"
                    ELSE IF scale = 1 /\ is_u32_offset(offset)
                         THEN "HeapUnsignedIntArray"
                    ELSE "HeapDoubleArrayFromInt"
    [] vdt = "K" -> IF scale = 1 /\ is_0(offset) THEN "HeapLongArray"
                    ELSE IF scale = 1 /\ is_u64_offset(offset)
                         THEN "HeapUnsignedLongArray"
                    ELSE "HeapDoubleArrayFromLong"
    [] vdt = "E" -> IF scale = 1 /\ is_0(offset) THEN "HeapFloatArray"
                    ELSE "HeapFloatArrayFromFloat"
    [] vdt = "D" -> IF scale = 1 /\ is_0(offset) THEN "HeapDoubleArray"
                    ELSE "HeapDoubleArrayFromDouble"
    [] vdt = "C" -> IF scale = 1 /\ is_0(offset) THEN "HeapComplexFloatArray"
                    ELSE "todo!"
    [] vdt = "M" -> IF scale = 1 /\ is_0(offset) THEN "HeapComplexDoubleArray"
                    ELSE "todo!"

\* The arms of TFORM P and Q.
HeapArm(col, variant, scale, offset) ==
  IF col.tnull # <<>> THEN Todo
  ELSE IF col.rc = 1
       THEN LET sub == heap_array_data_type(col.vdt, scale, offset)
            IN  IF sub = "todo!" THEN Todo
                ELSE Sch(variant, <<>>, 1, 1, 0, sub)
  ELSE Plain("Empty")

\* The match of BinTableColumnHeader::schema on a column that has a TFORM,
\* its arms in the order of the source: the first arm whose guard holds is
\* taken.
SchemaOfTForm(col, scale, offset) ==
  LET letter == col.tform[1]
      normal == scale = 1 \/ is_0(offset)
  IN  CASE letter = "L" ->
             ByCount(col.rc, Plain("NullableBoolean"),
                     Sch("NullableBooleanArray", <<>>, col.rc, 1, 0, ""))
        [] letter = "X" ->
             IF col.rc = 0 THEN Plain("Empty")
             ELSE Sch("Bits", <<>>, col.rc, 1, 0, "")
        [] letter = "B" ->
             IF normal THEN IntegerArm(col, "UnsignedByte")
             ELSE IF scale = 1 /\ is_i8_offset(offset) THEN IntegerArm(col, "Byte")
             ELSE IF col.tnull # <<>> THEN Todo
             ELSE TransformArm(col, "FloatFromByte", "FloatArrayFromBytes",
                               scale, offset)
        [] letter = "I" ->
             IF normal THEN IntegerArm(col, "Short")
             ELSE IF scale = 1 /\ is_u16_offset(offset)
                  THEN IntegerArm(col, "UnsignedShort")
             ELSE IF col.tnull # <<>> THEN Todo
             ELSE TransformArm(col, "FloatFromShort", "FloatArrayFromShort",
                               scale, offset)
        [] letter = "J" ->
             IF normal THEN IntegerArm(col, "Int")
             ELSE IF scale = 1 /\ is_u32_offset(offset)
                  THEN IntegerArm(col, "UnsignedInt")
             ELSE TransformArm(col, "DoubleFromInt", "DoubleArrayFromInt",
                               scale, offset)
        [] letter = "K" ->
             IF normal THEN IntegerArm(col, "Long")
             ELSE IF scale = 1 /\ is_u64_offset(offset)
                  THEN IntegerArm(col, "UnsignedLong")
             ELSE TransformArm(col, "DoubleFromLong", "DoubleArrayFromLong",
                               scale, offset)
        [] letter = "A" ->
             ByCount(col.rc, Plain("AsciiChar"),
                     Sch("AsciiString", <<>>, col.rc, 1, 0, ""))
        [] letter = "E" ->
             IF normal
             THEN ByCount(col.rc, Plain("Float"),
                          Sch("FloatArray", <<>>, col.rc, 1, 0, ""))
             ELSE TransformArm(col, "FloatFromFloat", "FloatArrayFromFloat",
                               scale, offset)
        [] letter = "D" ->
             IF normal
             THEN ByCount(col.rc, Plain("Double"),
                          Sch("DoubleArray", <<>>, col.rc, 1, 0, ""))
             ELSE TransformArm(col, "DoubleFromDouble", "DoubleArrayFromDouble",
                               scale, offset)
        [] letter = "C" ->
             IF normal
             THEN ByCount(col.rc, Plain("ComplexFloat"),
                          Sch("ComplexFloatArray", <<>>, col.rc, 1, 0, ""))
             ELSE Todo
        [] letter = "M" ->
             IF normal
             THEN ByCount(col.rc, Plain("ComplexDouble"),
                          Sch("ComplexDoubleArray", <<>>, col.rc, 1, 0, ""))
             ELSE Todo
        [] letter = "P" -> HeapArm(col, "HeapArrayPtr32", scale, offset)
        [] letter = "Q" -> HeapArm(col, "HeapArrayPtr64", scale, offset)

\* BinTableColumnHeader::schema(&self) -> Option<Schema>: <<>> for None.
schema(col) ==
  LET scale == IF col.tscal = <<>> THEN 1 ELSE col.tscal[1]
      offset == IF col.tzero = <<>> THEN UIF64("F64", 0, 0) ELSE col.tzero[1]
  IN  IF col.tform = <<>> THEN <<>>
      ELSE <<SchemaOfTForm(col, scale, offset)>>

\* Schema::stored_byte_len
stored_byte_len(s) ==
  CASE s.variant = "Empty" -> 0
    [] s.variant \in {"NullableBoolean", "Byte", "NullableByte", "UnsignedByte",
                      "NullableUnsignedByte", "FloatFromByte", "AsciiChar"} -> 1
    [] s.variant = "Bits" -> (s.len + 7) \div 8
    [] s.variant \in {"Short", "NullableShort", "UnsignedShort",
                      "NullableUnsignedShort", "FloatFromShort"} -> 2
    [] s.variant \in {"Int", "NullableInt", "UnsignedInt", "NullableUnsignedInt",
                      "Float", "FloatFromFloat", "DoubleFromInt"} -> 4
    [] s.variant \in {"Long", "NullableLong", "UnsignedLong",
                      "NullableUnsignedLong", "Double", "ComplexFloat",
                      "DoubleFromDouble", "DoubleFromLong", "HeapArrayPtr32"} -> 8
    [] s.variant \in {"ComplexDouble", "HeapArrayPtr64"} -> 16
    [] s.variant \in {"NullableBooleanArray", "ByteArray", "NullableByteArray",
                      "UnsignedByteArray", "NullableUnsignedByteArray",
                      "AsciiString", "FloatArrayFromBytes"} -> s.len
    [] s.variant \in {"ShortArray", "NullableShortArray", "UnsignedShortArray",
                      "NullableUnsignedShortArray", "FloatArrayFromShort"} ->
         2 * s.len
    [] s.variant \in {"IntArray", "NullableIntArray", "UnsignedIntArray",
                      "NullableUnsignedIntArray", "FloatArray",
                      "FloatArrayFromFloat", "DoubleArrayFromInt"} -> 4 * s.len
    [] s.variant \in {"LongArray", "NullableLongArray", "UnsignedLongArray",
                      "NullableUnsignedLongArray", "DoubleArray",
                      "ComplexFloatArray", "DoubleArrayFromDouble",
                      "DoubleArrayFromLong"} -> 8 * s.len
    [] s.variant = "ComplexDoubleArray" -> 16 * s.len

\* RowSchema::from_iter: the loop over the schemas, from the i-th one on, with
\* the running byte_offset and the fields pushed so far.
RECURSIVE FromIterLoop(_, _, _, _)
FromIterLoop(schemas, i, byte_offset, fields) ==
  IF i > Len(schemas) THEN fields
  ELSE FromIterLoop(schemas, i + 1, byte_offset + stored_byte_len(schemas[i]),
                    Append(fields, [starting_byte |-> byte_offset,
                                    schema |-> schemas[i]]))

from_iter(schemas) == FromIterLoop(schemas, 1, 0, <<>>)

\* col_header.schema().expect(..) aborts on a column without TFORM, and
\* schema() itself aborts in its todo!() arms.
ColumnAborts(col) ==
  IF schema(col) = <<>> THEN TRUE ELSE schema(col)[1].variant = "todo!"

\* State when the header of the BINTABLE has been parsed.
BtInit ==
  /\ \E n \in 0 .. MaxCols : btIn \in BtInputs(n)
  /\ btPc = "header"
  /\ row_schema = <<>>
  /\ btValue = <<>>
  /\ CsvIdle
  /\ HciIdle
  /\ QIdle
  /\ HipsIdle
  /\ HsIdle
  /\ ItIdle
  /\ ExIdle
  /\ PadIdle
  /\ ExpIdle
  /\ KwIdle

\* build_row_schema(): every column has a schema.
BuildRowSchema ==
  /\ btPc = "header"
  /\ \A i \in DOMAIN btIn.cols : ~ColumnAborts(btIn.cols[i])
  /\ row_schema' = from_iter([i \in DOMAIN btIn.cols |-> schema(btIn.cols[i])[1]])
  /\ btPc' = "schema"
  /\ UNCHANGED <<btIn, btValue>>
  /\ UNCHANGED btOthers

\* build_row_schema(): the thread panics on the first column without schema.
BuildRowSchemaPanic ==
  /\ btPc = "header"
  /\ \E i \in DOMAIN btIn.cols : ColumnAborts(btIn.cols[i])
  /\ btPc' = "panic"
  /\ UNCHANGED <<btIn, row_schema, btValue>>
  /\ UNCHANGED btOthers

\* bytes.rs: to_i8(v: u8) = (-128_i8).wrapping_add(v as i8)
to_i8(v) ==
  LET as_i8 == IF v >= 128 THEN v - 256 ELSE v
  IN  ((-128 + as_i8 + 128) % 256) - 128

\* bytes.rs: to_u16(v: i16) = 32_768_u16.wrapping_add(v as u16)
to_u16(v) == (32768 + (v % 65536)) % 65536

Some(type, v) == [null |-> FALSE, type |-> type, v |-> v]
None(type) == [null |-> TRUE, type |-> type, v |-> 0]

\* if v != null { Some(value) } else { None }
OptValue(type, v, null, value) ==
  IF v # null THEN Some(type, value) ELSE None(type)

\* The variants of a scalar number whose decoded value is a TLC integer.
\* (UnsignedInt and UnsignedLong are not among them.)
DecodedVariants ==
  {"Byte", "Short", "Int", "Long", "NullableByte", "NullableShort",
   "NullableInt", "NullableLong", "UnsignedByte", "UnsignedShort",
   "NullableUnsignedByte", "NullableUnsignedShort", "Float", "FloatFromFloat",
   "FloatFromByte", "FloatFromShort", "Double", "DoubleFromDouble",
   "DoubleFromInt", "DoubleFromLong"}

\* FieldSchema::deserialize with the methods of DeserializerWithHeap it
\* dispatches to; v is the storage of the field.
deserialize(s, v) ==
  CASE s.variant = "Byte" -> Some("i8", to_i8(v))
    [] s.variant = "Short" -> Some("i16", v)
    [] s.variant = "Int" -> Some("i32", v)
    [] s.variant = "Long" -> Some("i64", v)
    [] s.variant = "NullableByte" -> OptValue("i8", v, s.null[1], to_i8(v))
    [] s.variant = "NullableShort" -> OptValue("i16", v, s.null[1], v)
    [] s.variant = "NullableInt" -> OptValue("i32", v, s.null[1], v)
    [] s.variant = "NullableLong" -> OptValue("i64", v, s.null[1], v)
    [] s.variant = "UnsignedByte" -> Some("u8", v)
    [] s.variant = "UnsignedShort" -> Some("u16", to_u16(v))
    [] s.variant = "NullableUnsignedByte" -> OptValue("u8", v, s.null[1], v)
    [] s.variant = "NullableUnsignedShort" ->
         OptValue("u16", v, s.null[1], to_u16(v))
    [] s.variant = "Float" -> Some("f32", v)
    [] s.variant \in {"FloatFromFloat", "FloatFromByte", "FloatFromShort"} ->
         Some("f32", v * s.scale + s.offset)
    [] s.variant = "Double" -> Some("f64", v)
    [] s.variant \in {"DoubleFromDouble", "DoubleFromInt", "DoubleFromLong"} ->
         Some("f64", v * s.scale + s.offset)

\* The first field of a row is decoded.
DecodeField ==
  /\ btPc = "schema"
  /\ Len(row_schema) >= 1
  /\ row_schema[1].schema.variant \in DecodedVariants
  /\ btValue' = <<deserialize(row_schema[1].schema, btIn.storage)>>
  /\ btPc' = "decoded"
  /\ UNCHANGED <<btIn, row_schema>>
  /\ UNCHANGED btOthers

\* deserialize_bits is todo!(): decoding a field of bits panics.
DecodeBitsPanic ==
  /\ btPc = "schema"
  /\ Len(row_schema) >= 1
  /\ row_schema[1].schema.variant = "Bits"
  /\ btPc' = "decode_panic"
  /\ UNCHANGED <<btIn, row_schema, btValue>>
  /\ UNCHANGED btOthers

BtNext ==
  \/ BuildRowSchema
  \/ BuildRowSchemaPanic
  \/ DecodeField
  \/ DecodeBitsPanic

SpecBinTable == BtInit /\ [][BtNext]_vars

-----------------------------------------------------------------------------
(***************************************************************************)
(* Claims about the schema and the decoding of BINTABLE columns.           *)
(***************************************************************************)
\* The first column of the table, and the scale and offset schema() takes.
Col1 == btIn.cols[1]

Scale1 == IF Col1.tscal = <<>> THEN 1 ELSE Col1.tscal[1]

Offset1 == IF Col1.tzero = <<>> THEN UIF64("F64", 0, 0) ELSE Col1.tzero[1]

\* The first field has been decoded and the visitor received a value.
DecodedValue == btPc = "decoded" /\ ~btValue[1].null

\* The first column has the canonical sign-flip offset of its integer type,
\* with a scale of 1.
CanonicalCase ==
  /\ Col1.tform[1] \in IntLetters
  /\ Scale1 = 1
  /\ Offset1 = CanonicalOffset(Col1.tform[1])

\* The logical type the canonical offset of an integer type stands for.
CanonicalType(letter) ==
  CASE letter = "B" -> "i8"
    [] letter = "I" -> "u16"
    [] letter = "J" -> "u32"
    [] letter = "K" -> "u64"

\* C16 (as claimed): a column with TFORM='1I', TSCAL=1 and TZERO=32768 has
\* the unsigned 16-bit type and every value decodes as the wrapping sum
\* storage + 32768, so that the storage 0x8000 (-32768 as read) decodes to 0
\* and 0x7FFF to 65535; likewise TFORM='1B' with TZERO=-128 gives the signed
\* 8-bit type and storage - 128, and the canonical offsets of J and K give
\* the unsigned 32-bit and 64-bit types.
C16_CanonicalOffsetDecoding ==
  (DecodedValue /\ CanonicalCase) =>
    /\ btValue[1].type = CanonicalType(Col1.tform[1])
    /\ Col1.tform[1] = "I" => btValue[1].v = btIn.storage + 32768
    /\ Col1.tform[1] = "B" => btValue[1].v = btIn.storage - 128

\* The (TSCAL, TZERO) pair of the first column, of an integer or float type,
\* is neither (1, 0) nor a canonical offset with a scale of 1.
NonTrivialCase ==
  /\ Col1.tform[1] \in IntLetters \cup {"E", "D"}
  /\ ~(Scale1 = 1 /\ is_0(Offset1))
  /\ ~CanonicalCase

\* C17 (as claimed): for an integer or float column whose (TSCAL, TZERO) is
\* not (1, 0) and not a canonical offset with TSCAL=1, the decoded type is
\* floating point and the value is TSCAL * storage + TZERO; a TSCAL other
\* than 1 with TZERO=0 and a non-canonical TZERO with TSCAL=1 are applied.
C17_ScaleOffsetApplied ==
  (DecodedValue /\ NonTrivialCase /\ Col1.tnull = <<>>) =>
    /\ btValue[1].type \in {"f32", "f64"}
    /\ btValue[1].v = Scale1 * btIn.storage + as_f64(Offset1)

\* C18 (as claimed): a field of an integer column with TNULL decodes as null
\* exactly when its storage, before any offset, equals the sentinel TNULL;
\* with TFORM='1J' and TNULL=-2147483648 the storage 0x80000000 is null.
C18_NullIffSentinel ==
  (btPc = "decoded" /\ Col1.tform[1] \in IntLetters /\ Col1.tnull # <<>>) =>
    (btValue[1].null <=> btIn.storage = Col1.tnull[1])

\* C19 (as claimed): the mapping from a column to its schema is total: when
\* every column has a TFORM, whatever its TSCAL, TZERO and TNULL, the build
\* of the row schema yields a schema for each column and never aborts.
C19_SchemaMappingTotal ==
  (\A i \in DOMAIN btIn.cols : btIn.cols[i].tform # <<>>) => btPc # "panic"

\* Sum of the stored widths of the first k fields of the row schema.
RECURSIVE SumWidths(_)
SumWidths(k) ==
  IF k = 0 THEN 0 ELSE SumWidths(k - 1) + stored_byte_len(row_schema[k].schema)

\* C20 (as claimed): once the header of a BINTABLE is parsed and turned into
\* a row schema without error, the stored widths of the fields sum to NAXIS1
\* and the starting byte of each field is the sum of the stored widths of
\* the fields before it.
C20_WidthsSumToNaxis1 ==
  btPc \in {"schema", "decoded", "decode_panic"} =>
    /\ SumWidths(Len(row_schema)) = btIn.naxis1
    /\ \A k \in DOMAIN row_schema :
         row_schema[k].starting_byte = SumWidths(k - 1)

-----------------------------------------------------------------------------
(***************************************************************************)
(* Selection of the row of a chunk when the table has no score:            *)
(* recno_having_highest_score_except (crates/cli/src/mkhips.rs), as        *)
(* LayerExpl::exec calls it on the chunk from_recno..to_recno with the set *)
(* of the rows the layers above have selected.                             *)
(***************************************************************************)
MaxExRecno == 4

ExInputs ==
  { [recnos |-> <<a, b>>, already_selected |-> S] :
      a \in 0 .. MaxExRecno, b \in 0 .. MaxExRecno, S \in SUBSET (0 .. MaxExRecno - 1) }

ExInit ==
  /\ exIn \in { i \in ExInputs : i.recnos[1] <= i.recnos[2] }
  /\ exPc = "call"
  /\ exOut = 0
  /\ CsvIdle
  /\ HciIdle
  /\ QIdle
  /\ HipsIdle
  /\ HsIdle
  /\ ItIdle
  /\ BtIdle
  /\ PadIdle
  /\ ExpIdle
  /\ KwIdle

\* The call of LayerExpl::exec: input.recno_having_highest_score_except(
\* from_recno..to_recno, &selected_recnos), the table having no score.
SelectExcept ==
  /\ exPc = "call"
  /\ exOut' = recno_having_highest_score_except(exIn.recnos, exIn.already_selected)
  /\ exPc' = "returned"
  /\ UNCHANGED exIn
  /\ UNCHANGED exOthers

ExNext == SelectExcept

SpecSelect == ExInit /\ [][ExNext]_vars

(***************************************************************************)
(* Claims about the selection without score.                               *)
(***************************************************************************)
ExMiddle == (exIn.recnos[1] + exIn.recnos[2]) \div 2

ExFree(a, b) == { r \in a .. b : r \notin exIn.already_selected }

\* C24 (as claimed): without a score, the row selected in a range of rows is
\* the row of the middle index when that row is not already selected;
\* otherwise it is the first row not yet selected searching downward from the
\* middle and, only when there is none, searching upward.
C24_MiddleFirst ==
  (exPc = "returned" /\ exIn.recnos[1] < exIn.recnos[2]) =>
    exOut = IF ExMiddle \notin exIn.already_selected THEN ExMiddle
            ELSE IF ExFree(exIn.recnos[1], ExMiddle - 1) # {}
                 THEN MaxOf(ExFree(exIn.recnos[1], ExMiddle - 1))
            ELSE IF ExFree(ExMiddle + 1, exIn.recnos[2] - 1) # {}
                 THEN MinOf(ExFree(ExMiddle + 1, exIn.recnos[2] - 1))
            ELSE NoRecno

-----------------------------------------------------------------------------
(***************************************************************************)
(* Padding of a data block up to the next FITS block: the end of           *)
(* hsort_files (src/read/hsort.rs), HDU::copy_blanks (src/read/slice.rs)   *)
(* and FitsHiPSLayerWriter::finalize_bintable (crates/cli/src/mkhips.rs).  *)
(*                                                                         *)
(* The data block starts at the byte start, a multiple of 2880 (the HDUs   *)
(* and the header before it are whole blocks), and holds n_rows rows of    *)
(* row_byte_size bytes.  The padding is vec![byte; len].                   *)
(***************************************************************************)
MaxPadRows == 3      \* largest number of rows of the data block

PadRowSizes == {8, 960, 1440}

PadWriters == {"hsort_files", "copy_blanks", "finalize_bintable"}

PadInputs ==
  { [writer |-> w, start |-> st, n_rows |-> n, row_byte_size |-> sz] :
      w \in PadWriters, st \in {FitsBlock, 2 * FitsBlock},
      n \in 0 .. MaxPadRows, sz \in PadRowSizes }

\* State after the rows of the data block were written.
PadInit ==
  /\ padIn \in PadInputs
  /\ padPc = "rows"
  /\ padPos = padIn.start + padIn.n_rows * padIn.row_byte_size
  /\ padOut = [byte |-> 0, len |-> 0]
  /\ CsvIdle
  /\ HciIdle
  /\ QIdle
  /\ HipsIdle
  /\ HsIdle
  /\ ItIdle
  /\ BtIdle
  /\ ExIdle
  /\ ExpIdle
  /\ KwIdle

\* writer.write_all(vec![byte; len]) when len is not 0.
WritePad(byte, len) ==
  /\ padOut' = [byte |-> byte, len |-> len]
  /\ padPos' = padPos + len
  /\ padPc' = "done"
  /\ UNCHANGED padIn
  /\ UNCHANGED padOthers

\* hsort_files, after the loop on the sorted rows: blank padding from the
\* position of the writer, then NAXIS2 is written over in the header.
HsortFilesPad ==
  /\ padPc = "rows"
  /\ padIn.writer = "hsort_files"
  /\ LET mod2880 == padPos % 2880
     IN  IF mod2880 # 0 THEN WritePad(8, 2880 - mod2880) ELSE WritePad(0, 0)

\* HDU::copy_blanks, after copy_data: padding from the length of the data.
copy_blanks ==
  /\ padPc = "rows"
  /\ padIn.writer = "copy_blanks"
  /\ LET rem2880 == (padIn.n_rows * padIn.row_byte_size) % 2880
     IN  IF rem2880 # 0 THEN WritePad(0, 2880 - rem2880) ELSE WritePad(0, 0)

\* finalize_bintable: padding from the position of the writer, which is the
\* expected one; then NAXIS2 is written over in the header.
finalize_bintable ==
  /\ padPc = "rows"
  /\ padIn.writer = "finalize_bintable"
  /\ LET actual_pos == padPos
     IN  IF actual_pos % 2880 # 0 THEN WritePad(0, 2880 - (actual_pos % 2880))
         ELSE WritePad(0, 0)

PadNext == HsortFilesPad \/ copy_blanks \/ finalize_bintable

SpecPad == PadInit /\ [][PadNext]_vars

(***************************************************************************)
(* Claims about the padding.                                               *)
(***************************************************************************)
\* C22 (as claimed): all the bytes written between the end of a data block
\* and the next 2880-byte boundary are 0x00, for the directory-mode sort, for
\* the copy of an HDU and for the layer files.
C22_PaddingIsZero ==
  (padPc = "done" /\ padOut.len > 0) => padOut.byte = 0

-----------------------------------------------------------------------------
(***************************************************************************)
(* Single-threaded CSV export of a BINTABLE: convert_to_csv with           *)
(* n_threads = 1 (crates/cli/src/csv.rs) and CSVVisitor                    *)
(* (src/hdu/xtension/bintable/read/visitor/csv.rs).                        *)
(*                                                                         *)
(* The columns are of TFORM 1J without TSCAL, TZERO nor TNULL (Schema Int, *)
(* visit_i32); a column name is <<>> (no TTYPE) or <<name>>; a row is the  *)
(* sequence of its values.                                                 *)
(***************************************************************************)
MaxExpRows == 2      \* largest number of rows of the table

ExpColnames == { << <<>> >>, << <<"ra">> >>, << <<>>, <<"dec">> >>, << <<"ra">>, <<>> >> }

ExpValues == {1, 2, 0 - 30}

ExpInputs(names) ==
  { [no_header |-> h, colnames |-> names, rows |-> r] :
      h \in BOOLEAN,
      r \in SeqsUpTo([1 .. Len(names) -> ExpValues], MaxExpRows) }

\* State at the comment "Print header" of convert_to_csv.
ExpInit ==
  /\ \E names \in ExpColnames : expIn \in ExpInputs(names)
  /\ expPc = "header"
  /\ expRow = 1
  /\ expSep = ""
  /\ expOut = ""
  /\ CsvIdle
  /\ HciIdle
  /\ QIdle
  /\ HipsIdle
  /\ HsIdle
  /\ ItIdle
  /\ BtIdle
  /\ ExIdle
  /\ PadIdle
  /\ KwIdle

DigitChars == <<"0", "1", "2", "3", "4", "5", "6", "7", "8", "9">>

RECURSIVE NatToString(_)
NatToString(n) ==
  IF n < 10 THEN DigitChars[n + 1]
  ELSE NatToString(n \div 10) \o DigitChars[(n % 10) + 1]

\* write!(w, "{}", v) of an integer: its decimal digits, '-' first if negative.
Display(v) == IF v < 0 THEN "-" \o NatToString(0 - v) ELSE NatToString(v)

\* The header line: the names separated by ',', col_i for a column without
\* name; no end of line is written.
RECURSIVE HeaderFrom(_)
HeaderFrom(i) ==
  IF i >= Len(expIn.colnames) THEN ""
  ELSE (IF i = 0 THEN "" ELSE ",")
       \o (IF expIn.colnames[i + 1] = <<>> THEN "col_" \o Display(i)
           ELSE expIn.colnames[i + 1][1])
       \o HeaderFrom(i + 1)

\* if !no_header { ... }; then CSVVisitor::new(write): sep is '\n'.
PrintHeader ==
  /\ expPc = "header"
  /\ expOut' = (IF ~expIn.no_header THEN expOut \o HeaderFrom(0) ELSE expOut)
  /\ expSep' = "\n"
  /\ expPc' = "rows"
  /\ UNCHANGED <<expIn, expRow>>
  /\ UNCHANGED expOthers

\* CSVVisitor::write_sep on the visitor w = [out, sep]: the separator is
\* written, the next one is ','.
write_sep(w) == [out |-> w.out \o w.sep, sep |-> ","]

\* CSVVisitor::write (visit_i32): the separator, then the value.
visit_i32(w, v) == [write_sep(w) EXCEPT !.out = @ \o Display(v)]

RECURSIVE VisitFields(_, _)
VisitFields(w, row) ==
  IF row = <<>> THEN w
  ELSE VisitFields(visit_i32(w, Head(row)), Tail(row))

\* One iteration of `for raw_row in main.chunks(row_byte_size)`:
\* visitor.starts_new_line(), then the fields of the row are visited.
ExportRow ==
  /\ expPc = "rows"
  /\ expRow <= Len(expIn.rows)
  /\ LET w == VisitFields([out |-> expOut, sep |-> "\n"], expIn.rows[expRow])
     IN  /\ expOut' = w.out
         /\ expSep' = w.sep
  /\ expRow' = expRow + 1
  /\ UNCHANGED <<expIn, expPc>>
  /\ UNCHANGED expOthers

\* After the loop: write!(write, "\n").
ExportEnd ==
  /\ expPc = "rows"
  /\ expRow > Len(expIn.rows)
  /\ expOut' = expOut \o "\n"
  /\ expPc' = "done"
  /\ UNCHANGED <<expIn, expRow, expSep>>
  /\ UNCHANGED expOthers

ExpNext == PrintHeader \/ ExportRow \/ ExportEnd

SpecCsvSingle == ExpInit /\ [][ExpNext]_vars

(***************************************************************************)
(* Claims about the single-threaded CSV export.                            *)
(***************************************************************************)
\* The table of the claim: 2 rows, one 1J column without name, values 1, 2.
TwoRowsOneColumn ==
  /\ expIn.colnames = << <<>> >>
  /\ expIn.rows = << <<1>>, <<2>> >>

\* C26 (as claimed): the export of a BINTABLE of 2 rows with one unnamed 1J
\* column holding 1 and 2 writes exactly "col_0\n1\n2\n" with the header
\* line and "1\n2\n" without it.
C26_ExportOfSmallTable ==
  (expPc = "done" /\ TwoRowsOneColumn) =>
    expOut = IF expIn.no_header THEN "1\n2\n" ELSE "col_0\n1\n2\n"

-----------------------------------------------------------------------------
(***************************************************************************)
(* Writing of a fixed-format integer keyword record:                       *)
(* FixedFormatWrite::write_int_value_kw_record (src/common/write.rs), as   *)
(* BitPix::write_kw_record calls it (src/common/keywords/bitpix.rs).       *)
(*                                                                         *)
(* A byte is the one-character string of its ASCII character, "NUL" for    *)
(* the byte 0; a record is a sequence of 80 bytes.  The record comes from  *)
(* the caller, filled with spaces (the header writer, the tests) or with   *)
(* zeros (the NAXIS2 buffers of hidx.rs, hsort.rs and mkhips.rs).          *)
(***************************************************************************)
KwRecordLen == 80

KEYWORD == <<"B", "I", "T", "P", "I", "X", " ", " ">>

KwNames == { KEYWORD, <<"N", "A", "X", "I", "S", "2", " ", " ">>, <<"P", "C", "O", "U", "N", "T", " ", " ">> }

\* The values of BitPix::i16_value, and other values of integer keywords.
BitPixValues == {8, 16, 32, 64, 0 - 32, 0 - 64}

MaxKwValue == 1000

KwValues == BitPixValues \cup {0, MaxKwValue}

BitPixComment == <<"D", "a", "t", "a", " ", "e", "l", "e", "m", "e", "n", "t", " ", "b", "i", "t", " ", "s", "i", "z", "e">>

\* Option<&str>: <<>> is None, <<c>> is Some(c); the last comment is longer
\* than the 47 bytes left for a comment.
KwComments == { <<>>, <<BitPixComment>>, <<<<"n", " ", "r", "o", "w", "s">>>>, <<[k \in 1 .. 48 |-> "x"]>> }

VALUE_INDICATOR == <<"=", " ">>

VALUE_COMMENT_SEPARATOR == <<" ", "/", " ">>

KwInputs ==
  { [kw |-> k, value |-> v, comment |-> c, fill |-> f, depleted |-> d] :
      k \in KwNames, v \in KwValues, c \in KwComments, f \in {" ", "NUL"},
      d \in BOOLEAN }

KwInit ==
  /\ kwIn \in KwInputs
  /\ kwPc = "call"
  /\ kwRecord = [k \in 1 .. KwRecordLen |-> kwIn.fill]
  /\ CsvIdle
  /\ HciIdle
  /\ QIdle
  /\ HipsIdle
  /\ HsIdle
  /\ ItIdle
  /\ BtIdle
  /\ ExIdle
  /\ PadIdle
  /\ ExpIdle

\* copy of src over the bytes of dest that start at the position at (from 1).
CopyAt(dest, at, src) ==
  [k \in DOMAIN dest |-> IF k >= at /\ k < at + Len(src) THEN src[k - at + 1] ELSE dest[k]]

RECURSIVE NatDigits(_)
NatDigits(n) ==
  IF n < 10 THEN <<DigitChars[n + 1]>>
  ELSE Append(NatDigits(n \div 10), DigitChars[(n % 10) + 1])

IntDigits(v) == IF v < 0 THEN <<"-">> \o NatDigits(0 - v) ELSE NatDigits(v)

Spaces(n) == [k \in 1 .. n |-> " "]

\* Mutant of FormatRight20: the value is left-justified ("{:<20}").
MutFormatRight20(v) == IntDigits(v) \o Spaces(Max(0, 20 - Len(IntDigits(v))))

\* format!("{:>20}", value): padded with spaces on the left up to 20 bytes.
FormatRight20(v) == Spaces(Max(0, 20 - Len(IntDigits(v)))) \o IntDigits(v)

\* write_kw_and_value_indicator: the keyword in the bytes 1-8, the value
\* indicator in the bytes 9-10.
write_kw_and_value_indicator(kw_record, kw) ==
  CopyAt(CopyAt(kw_record, 1, kw), 9, VALUE_INDICATOR)

\* write_comment on the 50 bytes after the value: the separator, then the
\* comment when it fits in the 47 bytes of the tail.
write_comment(kw_record, comment) ==
  CopyAt(CopyAt(kw_record, 31, VALUE_COMMENT_SEPARATOR), 34,
         SubSeq(comment, 1, Min(Len(comment), 47)))

write_comment_if_any(kw_record, comment) ==
  IF comment # <<>> THEN write_comment(kw_record, comment[1]) ELSE kw_record

\* write_int_value_comment: the value in the 20 bytes 11-30, then the comment.
write_int_value_comment(kw_record, value, comment) ==
  write_comment_if_any(CopyAt(kw_record, 11, FormatRight20(value)), comment)

\* The comment does not fit: write_comment truncates a copy of it but copies
\* comment.len() bytes, past the end of the record.
CommentOverflows == kwIn.comment # <<>> /\ Len(kwIn.comment[1]) > 47

\* write_int_value_kw_record on an iterator that yields the record.
WriteKwRecord ==
  /\ kwPc = "call"
  /\ ~kwIn.depleted
  /\ kwRecord' = write_int_value_comment(
                   write_kw_and_value_indicator(kwRecord, kwIn.kw),
                   kwIn.value, kwIn.comment)
  /\ kwPc' = (IF CommentOverflows THEN "overflow" ELSE "done")
  /\ UNCHANGED kwIn
  /\ UNCHANGED kwOthers

\* write_int_value_kw_record on a depleted iterator: Err, nothing written.
WriteKwRecordDepleted ==
  /\ kwPc = "call"
  /\ kwIn.depleted
  /\ kwPc' = "error"
  /\ UNCHANGED <<kwIn, kwRecord>>
  /\ UNCHANGED kwOthers

KwNext == WriteKwRecord \/ WriteKwRecordDepleted

SpecKwRecord == KwInit /\ [][KwNext]_vars

(***************************************************************************)
(* Claims about the keyword record.                                        *)
(***************************************************************************)
\* The bytes of the record after the value field, as claimed: ' / ' and the
\* comment, then spaces; spaces only when there is no comment.
ClaimedTail ==
  IF kwIn.comment = <<>> THEN Spaces(50)
  ELSE VALUE_COMMENT_SEPARATOR \o kwIn.comment[1] \o Spaces(47 - Len(kwIn.comment[1]))

\* C27: writing a fixed-format integer keyword into a space-filled 80-byte
\* record gives the keyword name in the bytes 1-8, "= " in the bytes 9-10,
\* the integer right-justified in the 20 bytes 11-30, then " / " and the
\* comment, the other bytes left as spaces; the record is still 80 bytes
\* long.  The six values of BITPIX are among the values explored.
C27_FixedFormatIntRecord ==
  (kwPc = "done" /\ kwIn.fill = " ") =>
    /\ Len(kwRecord) = 80
    /\ SubSeq(kwRecord, 1, 8) = kwIn.kw
    /\ SubSeq(kwRecord, 9, 10) = <<"=", " ">>
    /\ LET digits == IntDigits(kwIn.value)
       IN  /\ SubSeq(kwRecord, 31 - Len(digits), 30) = digits
           /\ \A k \in 11 .. 30 - Len(digits) : kwRecord[k] = " "
    /\ SubSeq(kwRecord, 31, 80) = ClaimedTail

\* C27 witness: the record of BITPIX = -64 with the comment of
\* BitPix::write_kw_record, written into a space-filled record.
C27_Witness ==
  /\ kwPc = "done"
  /\ kwIn.fill = " "
  /\ kwIn.kw = KEYWORD
  /\ kwIn.value = 0 - 64
  /\ kwIn.comment = <<BitPixComment>>
  /\ kwRecord[28] = "-"

=============================================================================
